---------------------------- MODULE Spec2Model ----------------------------
(***************************************************************************)
(* SecureXfer: local peer discovery (MDNSService), the transfer listener   *)
(* (TransferServer), the initiator (handleSend in App.tsx and the          *)
(* 'start-upload' handler in main.ts).                                      *)
(*                                                                         *)
(* The specifications share the variables:                                 *)
(*   SpecDiscovery  the peer table under responses, queries, polls, time   *)
(*   SpecLocalIp    getLocalIp on the interfaces a host may have           *)
(*   SpecListener   the listener's sockets under arbitrary clients         *)
(*   SpecApproval   the listener and its approval surface                  *)
(*   SpecUpload     the /upload route under arbitrary requests             *)
(*   SpecApp        the main process: startup, windows, services           *)
(*   Spec           one initiator talking to one listener over a network   *)
(***************************************************************************)
EXTENDS Integers, Sequences, FiniteSets, TLC

\* ---------------------------------------------------------------- bounds
\* Clock ticks the discovery model runs for (one tick is TickMs).
MaxTicks == 4
\* Parts a received response may lack at once.
MaxMissing == 1
\* Files selected for one transfer, and the size of a file in chunks.
MaxFiles == 2
MaxFileSize == 2
\* createWindow() invocations in one process.
MaxCalls == 2
\* Chunks in the body of an upload request.
MaxBody == 2
MaxIfaces == 2
MaxAddrs == 2

\* ------------------------------------------------------ program constants
\* getPeers: now - peer.lastSeen > 30000
StaleMs == 30000
\* Granularity of the modelled clock, in ms (three ticks are exactly StaleMs).
TickMs == 10000

None == "none"

\* ------------------------------------------------------------- variables
VARIABLES
    \* discovery service
    mdnsClass,      \* which of the repository's two MDNSService classes runs
    peers,          \* MDNSService.peers : Map<string, Peer>
    now,            \* Date.now()
    peerList,       \* what the step returned, if it was a getPeers() call
    mdnsOut,        \* the multicast packets the step sent
    heardSelf,      \* a complete response carrying the own id was received (history)
    \* the event the step handled (a history variable)
    evt,
    \* transfer listener (TransferServer)
    activeDecisions,    \* Map<transferId, callback>: the socket the callback is bound to
    pendingTransferId,  \* per connection: the closure's pendingTransferId
    sockState,          \* per connection: "new", "open" or "closed" on the server
    emitted,            \* socket.emit calls of the step: <<[conn, id, allowed]>>
    notified,           \* win.webContents.send calls of the step
    lastRequest,        \* the latest 'request-transfer' handled (a history variable)
    \* listener: upload route and renderer (approval surface)
    netBytes,           \* file bytes the listener has received, over all uploads
    nCompleted,         \* 'completed' status events the upload route has sent
    incomingTransfer,   \* App state incomingTransfer (the request shown), or None
    rxAct,              \* the receiving TransferActivity of the transfer
    ipcDecisions,       \* 'transfer-decision' ipc messages renderer -> main, in flight
    withdrawn,          \* the event whose 'cancel-transfer' told the approval
                        \* surface that the transfer is withdrawn (history)
    \* initiator: handleSend (renderer) and 'start-upload' (main)
    selectedFiles,      \* sizes of the selected files, in list order
    expectedFingerprint,\* selectedPeer.fingerprint
    act,                \* the sending TransferActivity of the transfer
    timeoutId,          \* the 30 s timer: "unset", "armed", "fired", "cleared"
    closeTimer,         \* the 100 ms disconnect timer: "unset", "armed", "fired"
    sock,               \* the client socket: "none", "open", "closed"
    loop,               \* the decision handler's upload loop
    up,                 \* the upload in progress in 'start-upload'
    toL,                \* socket messages in flight, initiator -> listener
    toI,                \* socket messages in flight, listener -> initiator
    \* the main process (main.ts)
    platform,           \* process.platform
    appQuit,            \* app.quit() has been called
    calls,              \* the createWindow() invocations, each with its position
    nWindows,           \* BrowserWindow.getAllWindows().length
    nCerts,             \* certificates generated so far (each one is new)
    myKeys,             \* myKeys / myFingerprint: the certificate they hold, 0 if none
    servers,            \* the TransferServer objects constructed: [cert, port]
    services,           \* the MDNSService objects constructed: [id, port, fingerprint]
    nIntervals,         \* setInterval timers scheduled
    announced,          \* the identities announced so far (history)
    errorBoxes,         \* dialog.showErrorBox calls so far
    \* the /upload route of the listener, one request at a time
    rq,                 \* the request served: query, closure variables, events sent
    statusOut,          \* 'transfer-status' events the step sent to the window
    httpRes,            \* status of the response sent, 0 if none yet
    disk,               \* the file at savePath: whether it exists, and its bytes
    \* the renderer of the listener's host
    activities,         \* App state activities, per transferId
    \* the host's network interfaces
    interfaces,         \* os.networkInterfaces(), in Object.keys order
    localIp             \* the result of the last getLocalIp() call, if any

discVars == <<mdnsClass, peers, now, peerList, mdnsOut, heardSelf>>
listenerVars ==
    <<activeDecisions, pendingTransferId, sockState, emitted, notified, lastRequest>>

routeVars == <<netBytes, nCompleted>>
uiVars == <<incomingTransfer, rxAct, ipcDecisions, withdrawn>>
initiatorVars ==
    <<selectedFiles, expectedFingerprint, act, timeoutId, closeTimer, sock, loop, up>>
netVars == <<toL, toI>>
xferVars == <<routeVars, uiVars, initiatorVars, netVars>>

appVars ==
    <<platform, appQuit, calls, nWindows, nCerts, myKeys, servers, services,
      nIntervals, announced, errorBoxes>>

uploadVars == <<rq, statusOut, httpRes, disk>>

osVars == <<interfaces, localIp>>

vars ==
    <<discVars, evt, listenerVars, xferVars, appVars, uploadVars, activities, osVars>>

\* =========================================================================
\* Discovery service
\* =========================================================================
serviceName == "securexfer.local"
myId == "me"
myName == "hostMe"
myPort == 1
myFingerprint == "FP_me"

PeerIds == {"me", "A", "B"}
PeerIps == {"X", "Y"}
QueryNames == {"securexfer.local", "other.local"}

\* --- network interfaces and getLocalIp -----------------------------------
\* An interface name is the sequence of its characters.
Name_lo == <<"l", "o">>
Name_eth0 == <<"e", "t", "h", "0">>
Name_docker0 == <<"d", "o", "c", "k", "e", "r", "0">>
Name_WiFi == <<"W", "i", "-", "F", "i">>
InterfaceNames == {Name_lo, Name_eth0, Name_docker0, Name_WiFi}

\* const targetInterfaces = ['Wi-Fi', 'Ethernet', 'WLAN', 'WiFi', 'eth0', 'wlan0']
targetInterfaces ==
    << <<"W", "i", "-", "F", "i">>,
       <<"E", "t", "h", "e", "r", "n", "e", "t">>,
       <<"W", "L", "A", "N">>,
       <<"W", "i", "F", "i">>,
       <<"e", "t", "h", "0">>,
       <<"w", "l", "a", "n", "0">> >>

\* String.toLowerCase, on the letters that occur.
UpperToLower ==
    [A |-> "a", E |-> "e", F |-> "f", L |-> "l", N |-> "n", W |-> "w"]
ToLowerCase(s) ==
    [i \in DOMAIN s |-> IF s[i] \in DOMAIN UpperToLower THEN UpperToLower[s[i]] ELSE s[i]]

\* String.includes
Includes(s, t) ==
    \E i \in 0..(Len(s) - Len(t)) : SubSeq(s, i + 1, i + Len(t)) = t

\* targetInterfaces.some(t => name.toLowerCase().includes(t.toLowerCase()))
isPriority(name) ==
    \E k \in DOMAIN targetInterfaces :
        Includes(ToLowerCase(name), ToLowerCase(targetInterfaces[k]))

\* The addresses an interface may carry.
AddrEntries ==
    {[family |-> "IPv4", internal |-> FALSE, address |-> "X"],
     [family |-> "IPv4", internal |-> FALSE, address |-> "Y"],
     [family |-> "IPv4", internal |-> TRUE, address |-> "127.0.0.1"],
     [family |-> "IPv6", internal |-> FALSE, address |-> "fe80::1"]}
AddrLists == UNION {[1..n -> AddrEntries] : n \in 1..MaxAddrs}

\* os.networkInterfaces(): distinct names in Object.keys order, each with
\* its addresses.
InterfaceLists ==
    UNION {{f \in [1..n -> [name : InterfaceNames, addrs : AddrLists]] :
               \A i, j \in 1..n : i # j => f[i].name # f[j].name} :
           n \in 0..MaxIfaces}

\* The two nested for loops of getLocalIp, as the sequence of the addresses
\* they visit, each with isPriority of its interface.
RECURSIVE Visited(_)
Visited(ifs) ==
    IF ifs = <<>> THEN <<>>
    ELSE [k \in 1..Len(Head(ifs).addrs) |->
             [isPriority |-> isPriority(Head(ifs).name),
              iface |-> Head(ifs).addrs[k]]]
         \o Visited(Tail(ifs))

\* The body of the loops from the i-th visited address on, with the current
\* value of fallbackIp.
RECURSIVE Scan(_, _, _)
Scan(v, i, fallbackIp) ==
    IF i > Len(v) THEN fallbackIp
    ELSE IF v[i].iface.family = "IPv4" /\ ~v[i].iface.internal
         THEN IF v[i].isPriority
              THEN v[i].iface.address
              ELSE Scan(v, i + 1, v[i].iface.address)
         ELSE Scan(v, i + 1, fallbackIp)

\* getLocalIp() of electron/MDNSService.ts on a given os.networkInterfaces().
GetLocalIp(ifs) == Scan(Visited(ifs), 1, "127.0.0.1")

\* The body of the loops of getLocalIp() of the class in main.ts: the first
\* non-internal IPv4 address is returned.
RECURSIVE ScanMain(_, _)
ScanMain(v, i) ==
    IF i > Len(v) THEN "127.0.0.1"
    ELSE IF v[i].iface.family = "IPv4" /\ ~v[i].iface.internal
         THEN v[i].iface.address
         ELSE ScanMain(v, i + 1)

\* getLocalIp() of the class in main.ts.
GetLocalIpMain(ifs) == ScanMain(Visited(ifs), 1)

\* The interfaces of the local host.
myInterfaces ==
    <<[name |-> Name_lo,
       addrs |-> <<[family |-> "IPv4", internal |-> TRUE, address |-> "127.0.0.1"]>>],
      [name |-> Name_eth0,
       addrs |-> <<[family |-> "IPv4", internal |-> FALSE, address |-> "X"]>>]>>

\* getLocalIp(): the address announced in the A record.
getLocalIp == GetLocalIp(myInterfaces)

NoIp == [called |-> FALSE, ip |-> None]

InitOs ==
    /\ interfaces = myInterfaces
    /\ localIp = NoIp

\* A call of getLocalIp().
CallGetLocalIp ==
    /\ localIp' = [called |-> TRUE,
                   ip |-> IF mdnsClass = "MDNSService.ts"
                          THEN GetLocalIp(interfaces)
                          ELSE GetLocalIpMain(interfaces)]
    /\ evt' = [kind |-> "getLocalIp"]
    /\ UNCHANGED interfaces
    /\ UNCHANGED <<discVars, listenerVars, xferVars, appVars, uploadVars, activities>>

\* --- mDNS packets ---------------------------------------------------------
\* What the handler looks for in a response: the PTR answer for the service
\* name, the first TXT, SRV and A additionals, and the id=, name= and fp=
\* tokens of the TXT data.
Parts == {"PTR", "TXT", "SRV", "A", "id=", "name=", "fp="}

\* What a response carries besides its id and address: the sender's name,
\* port and fingerprint (the local host's own, or a foreign host's).
Payloads ==
    {[name |-> myName, port |-> myPort, fingerprint |-> myFingerprint],
     [name |-> "hostA", port |-> 2, fingerprint |-> "FP_A"]}

\* The hosts that announce: the constructor arguments and the local address
\* of an MDNSService.
Hosts ==
    {[id |-> i, ip |-> x, name |-> p.name, port |-> p.port,
      fingerprint |-> p.fingerprint] :
        i \in PeerIds, x \in PeerIps, p \in Payloads}

\* The local host.
Me ==
    [id |-> myId, ip |-> getLocalIp, name |-> myName, port |-> myPort,
     fingerprint |-> myFingerprint]

\* A text is the sequence of its '=' characters and of its maximal runs of
\* other characters; the texts sent hold values without '='.
Text(v) == IF v = "" THEN <<>> ELSE <<v>>

\* The template literal `${key}=${v}`.
Entry(key, v) == <<key, "=">> \o Text(v)

\* String.split('='), from the i-th element on, cur being the run so far.
RECURSIVE SplitFrom(_, _, _)
SplitFrom(s, i, cur) ==
    IF i > Len(s) THEN <<cur>>
    ELSE IF s[i] = "=" THEN <<cur>> \o SplitFrom(s, i + 1, "")
    ELSE SplitFrom(s, i + 1, s[i])

Split(s) == SplitFrom(s, 1, "")

\* d.toString().startsWith(key + '=')
StartsWith(d, key) == Len(d) >= 2 /\ d[1] = key /\ d[2] = "="

\* split('=')[0]
KeyOf(d) == Split(d)[1]

\* d.toString().split('=')[1]
ValueOf(d) == Split(d)[2]

\* A resource record; the fields its type does not use are left empty.
Record(type, name) ==
    [type |-> type, name |-> name, port |-> 0, texts |-> <<>>, address |-> ""]

\* announce() of a host: the response it multicasts (the names of the
\* additionals, which no handler reads, are reduced to the host's name).
AnnounceOf(h) ==
    [answers |-> <<Record("PTR", serviceName)>>,
     additionals |->
        <<[Record("SRV", h.name) EXCEPT !.port = h.port],
          [Record("TXT", h.name) EXCEPT
              !.texts = <<Entry("id", h.id), Entry("name", h.name),
                          Entry("fp", h.fingerprint)>>],
          [Record("A", h.name) EXCEPT !.address = h.ip]>>]

\* announce(): the response this host multicasts.
Announce == AnnounceOf(Me)

\* The elements of a sequence that are in a set, in order.
RECURSIVE Filter(_, _)
Filter(s, keep) ==
    IF s = <<>> THEN <<>>
    ELSE (IF Head(s) \in keep THEN <<Head(s)>> ELSE <<>>) \o Filter(Tail(s), keep)

\* A packet that lacks the parts m of a full response.
Without(pkt, m) ==
    LET texts(ts) ==
            Filter(ts, {d \in {ts[i] : i \in DOMAIN ts} :
                          /\ ~("id=" \in m /\ StartsWith(d, "id"))
                          /\ ~("name=" \in m /\ StartsWith(d, "name"))
                          /\ ~("fp=" \in m /\ StartsWith(d, "fp"))})
        adds == Filter(pkt.additionals,
                       {a \in {pkt.additionals[i] : i \in DOMAIN pkt.additionals} :
                           a.type \notin m})
    IN [answers |-> IF "PTR" \in m THEN <<>> ELSE pkt.answers,
        additionals |-> [i \in DOMAIN adds |-> [adds[i] EXCEPT !.texts = texts(@)]]]

\* The sets of parts a response that arrives may lack.
MissingSets == {s \in SUBSET Parts : Cardinality(s) <= MaxMissing}

NoHost == [id |-> None, ip |-> None, name |-> None, port |-> 0, fingerprint |-> None]

\* Array.prototype.find, as the index of the first match (0 if none).
FirstIndex(S) == IF S = {} THEN 0 ELSE CHOOSE i \in S : \A j \in S : i <= j

\* What the 'response' handler reads from a packet: the parts it does not
\* find and the values of the ones it finds.
ParseResponse(pkt) ==
    LET ans == pkt.answers
        add == pkt.additionals
        ptr == FirstIndex({i \in DOMAIN ans :
                              ans[i].name = serviceName /\ ans[i].type = "PTR"})
        txt == FirstIndex({i \in DOMAIN add : add[i].type = "TXT"})
        srv == FirstIndex({i \in DOMAIN add : add[i].type = "SRV"})
        aRecord == FirstIndex({i \in DOMAIN add : add[i].type = "A"})
        data == IF txt = 0 THEN <<>> ELSE add[txt].texts
        idData == FirstIndex({i \in DOMAIN data : StartsWith(data[i], "id")})
        nameData == FirstIndex({i \in DOMAIN data : StartsWith(data[i], "name")})
        fpData == FirstIndex({i \in DOMAIN data : StartsWith(data[i], "fp")})
    IN [missing |->
            (IF ptr = 0 THEN {"PTR"} ELSE {})
            \cup (IF txt = 0 THEN {"TXT"} ELSE {})
            \cup (IF srv = 0 THEN {"SRV"} ELSE {})
            \cup (IF aRecord = 0 THEN {"A"} ELSE {})
            \cup (IF txt # 0 /\ idData = 0 THEN {"id="} ELSE {})
            \cup (IF txt # 0 /\ nameData = 0 THEN {"name="} ELSE {})
            \cup (IF txt # 0 /\ fpData = 0 THEN {"fp="} ELSE {}),
        id |-> IF idData = 0 THEN None ELSE ValueOf(data[idData]),
        name |-> IF nameData = 0 THEN None ELSE ValueOf(data[nameData]),
        fingerprint |-> IF fpData = 0 THEN None ELSE ValueOf(data[fpData]),
        port |-> IF srv = 0 THEN 0 ELSE add[srv].port,
        ip |-> IF aRecord = 0 THEN None ELSE add[aRecord].address]

\* The responses that arrive: the announcement of a host, whole or lacking
\* a few parts, each with what the handler reads from it.
Arrivals ==
    {[sender |-> h, lacks |-> m, read |-> ParseResponse(Without(AnnounceOf(h), m))] :
        h \in Hosts, m \in MissingSets}

\* Accepts with the `srv` test of `if (txt && srv && aRecord)` left out.
AcceptsWithoutSrv(r) ==
    /\ "PTR" \notin r.missing
    /\ "TXT" \notin r.missing /\ "A" \notin r.missing
    /\ "id=" \notin r.missing /\ "name=" \notin r.missing /\ "fp=" \notin r.missing
    /\ r.id # myId

\* Accepts with the self-loop test `id !== this.myId` left out.
AcceptsOwnId(r) ==
    /\ "PTR" \notin r.missing
    /\ "TXT" \notin r.missing /\ "SRV" \notin r.missing /\ "A" \notin r.missing
    /\ "id=" \notin r.missing /\ "name=" \notin r.missing /\ "fp=" \notin r.missing

\* The nested ifs of the response handler, down to `id !== this.myId`.
Accepts(r) ==
    /\ "PTR" \notin r.missing
    /\ "TXT" \notin r.missing /\ "SRV" \notin r.missing /\ "A" \notin r.missing
    /\ "id=" \notin r.missing /\ "name=" \notin r.missing /\ "fp=" \notin r.missing
    /\ r.id # myId

\* for (const [existingId, existingPeer] of this.peers.entries())
\*     if (existingPeer.ip === newPeerIp && existingId !== id) delete
EvictSameIp(p, ip, id) ==
    [i \in {j \in DOMAIN p : ~(p[j].ip = ip /\ j # id)} |-> p[i]]

\* SetPeer that keeps the lastSeen of a record it replaces.
SetPeerKeepsLastSeen(p, r, t) ==
    [i \in DOMAIN p \cup {r.id} |->
        IF i = r.id
        THEN [id |-> r.id, name |-> r.name, ip |-> r.ip, port |-> r.port,
              fingerprint |-> r.fingerprint,
              lastSeen |-> IF i \in DOMAIN p THEN p[i].lastSeen ELSE t]
        ELSE p[i]]

\* this.peers.set(id, {id, name, ip, port, fingerprint, lastSeen: Date.now()})
SetPeer(p, r, t) ==
    [i \in DOMAIN p \cup {r.id} |->
        IF i = r.id
        THEN [id |-> r.id, name |-> r.name, ip |-> r.ip, port |-> r.port,
              fingerprint |-> r.fingerprint, lastSeen |-> t]
        ELSE p[i]]

\* The table after the 'response' handler of electron/MDNSService.ts.
ResponseTable(p, r, t) ==
    IF Accepts(r) THEN SetPeer(EvictSameIp(p, r.ip, r.id), r, t) ELSE p

\* The table after the 'response' handler of the MDNSService class that
\* main.ts itself holds (no same-ip eviction).
ResponseTableMain(p, r, t) ==
    IF Accepts(r) THEN SetPeer(p, r, t) ELSE p

\* A sweep that deletes nothing.
SweepKeepsAll(p, t) == p

\* A sweep that also deletes the records exactly StaleMs old.
SweepAtThreshold(p, t) ==
    [i \in {j \in DOMAIN p : ~(t - p[j].lastSeen >= StaleMs)} |-> p[i]]

\* getPeers(): the sweep.
Sweep(p, t) ==
    [i \in {j \in DOMAIN p : ~(t - p[j].lastSeen > StaleMs)} |-> p[i]]

\* Array.from(this.peers.values()), as the set of records.
Values(p) == {p[i] : i \in DOMAIN p}

EmptyTable == [i \in {} |-> 0]

NoList == [called |-> FALSE, list |-> {}]

InitDisc ==
    /\ mdnsClass \in {"MDNSService.ts", "main.ts"}
    /\ peers = EmptyTable
    /\ now = 0
    /\ peerList = NoList
    /\ mdnsOut = <<>>
    /\ heardSelf = FALSE

\* mDNS.on('response') of electron/MDNSService.ts: an announcement
\* arrives, whole or lacking parts.
HandleResponse(a) ==
    LET r == a.read IN
    /\ mdnsClass = "MDNSService.ts"
    /\ peers' = ResponseTable(peers, r, now)
    /\ peerList' = NoList
    /\ mdnsOut' = <<>>
    /\ heardSelf' = (heardSelf \/ (r.missing = {} /\ r.id = myId))
    /\ UNCHANGED <<mdnsClass, now>>
    /\ evt' = [kind |-> "response", lacks |-> r.missing # {}, id |-> r.id, ip |-> r.ip,
               known |-> r.id \in DOMAIN peers,
               sender |-> IF a.lacks = {} THEN a.sender ELSE NoHost]
    /\ UNCHANGED <<appVars, uploadVars, listenerVars, xferVars>>
    /\ UNCHANGED <<activities, osVars>>

\* mDNS.on('response') of the class in main.ts: the same arrival.
HandleResponseMain(a) ==
    LET r == a.read IN
    /\ mdnsClass = "main.ts"
    /\ peers' = ResponseTableMain(peers, r, now)
    /\ peerList' = NoList
    /\ mdnsOut' = <<>>
    /\ heardSelf' = (heardSelf \/ (r.missing = {} /\ r.id = myId))
    /\ UNCHANGED <<mdnsClass, now>>
    /\ evt' = [kind |-> "response", lacks |-> r.missing # {}, id |-> r.id, ip |-> r.ip,
               known |-> r.id \in DOMAIN peers,
               sender |-> IF a.lacks = {} THEN a.sender ELSE NoHost]
    /\ UNCHANGED <<appVars, uploadVars, listenerVars, xferVars>>
    /\ UNCHANGED <<activities, osVars>>

\* A 'query' handler that announces whatever the questions name.
HandleQueryAnnouncesAlways(names) ==
    /\ mdnsOut' = <<[response |-> Announce]>>
    /\ peerList' = NoList
    /\ UNCHANGED <<mdnsClass, peers, now, heardSelf>>
    /\ evt' = [kind |-> "query", mine |-> serviceName \in names, names |-> names]
    /\ UNCHANGED <<appVars, uploadVars, listenerVars, xferVars>>
    /\ UNCHANGED <<activities, osVars>>

\* mDNS.on('query'): announce() when a question names the service.
HandleQuery(names) ==
    /\ mdnsOut' = IF serviceName \in names THEN <<[response |-> Announce]>> ELSE <<>>
    /\ peerList' = NoList
    /\ UNCHANGED <<mdnsClass, peers, now, heardSelf>>
    /\ evt' = [kind |-> "query", mine |-> serviceName \in names, names |-> names]
    /\ UNCHANGED <<appVars, uploadVars, listenerVars, xferVars>>
    /\ UNCHANGED <<activities, osVars>>

\* A discover() that also sweeps the table.
DiscoverSweeps ==
    /\ mdnsOut' = <<[query |-> serviceName]>>
    /\ peers' = Sweep(peers, now)
    /\ peerList' = NoList
    /\ UNCHANGED <<mdnsClass, now, heardSelf>>
    /\ evt' = [kind |-> "discover"]
    /\ UNCHANGED <<appVars, uploadVars, listenerVars, xferVars>>
    /\ UNCHANGED <<activities, osVars>>

\* discover(): one query for the service name.
Discover ==
    /\ mdnsOut' = <<[query |-> serviceName]>>
    /\ peerList' = NoList
    /\ UNCHANGED <<mdnsClass, peers, now, heardSelf>>
    /\ evt' = [kind |-> "discover"]
    /\ UNCHANGED <<appVars, uploadVars, listenerVars, xferVars>>
    /\ UNCHANGED <<activities, osVars>>

\* getPeers(): sweep, then return the values.
GetPeers ==
    /\ peers' = Sweep(peers, now)
    /\ peerList' = [called |-> TRUE, list |-> Values(Sweep(peers, now))]
    /\ mdnsOut' = <<>>
    /\ UNCHANGED <<mdnsClass, now, heardSelf>>
    /\ evt' = [kind |-> "getPeers",
               swept |-> DOMAIN peers \ DOMAIN Sweep(peers, now)]
    /\ UNCHANGED <<appVars, uploadVars, listenerVars, xferVars>>
    /\ UNCHANGED <<activities, osVars>>

\* Wall-clock time passes.
Tick ==
    /\ now < MaxTicks * TickMs
    /\ now' = now + TickMs
    /\ peerList' = NoList
    /\ mdnsOut' = <<>>
    /\ UNCHANGED <<mdnsClass, peers, heardSelf>>
    /\ evt' = [kind |-> "tick"]
    /\ UNCHANGED <<appVars, uploadVars, listenerVars, xferVars>>
    /\ UNCHANGED <<activities, osVars>>

\* =========================================================================
\* Transfer listener (TransferServer)
\* =========================================================================
Conns == {"c1", "c2"}
TransferIds == {"t1", "t2"}

NoDecisions == [t \in {} |-> None]

\* Map.delete / Map.set on activeDecisions.
MapDelete(m, t) == [u \in DOMAIN m \ {t} |-> m[u]]
MapSet(m, t, v) == [u \in DOMAIN m \cup {t} |-> IF u = t THEN v ELSE m[u]]

InitListener ==
    /\ activeDecisions = NoDecisions
    /\ pendingTransferId = [c \in Conns |-> None]
    /\ sockState = [c \in Conns |-> "new"]
    /\ emitted = <<>>
    /\ notified = <<>>
    /\ lastRequest = [conn |-> None, id |-> None]

\* io.on('connection'): a fresh closure, pendingTransferId = null.
OnConnection(c) ==
    /\ sockState[c] = "new"
    /\ sockState' = [sockState EXCEPT ![c] = "open"]
    /\ pendingTransferId' = [pendingTransferId EXCEPT ![c] = None]
    /\ emitted' = <<>>
    /\ notified' = <<>>
    /\ UNCHANGED <<activeDecisions, lastRequest>>

\* socket.on('request-transfer')
OnRequestTransfer(c, t) ==
    /\ sockState[c] = "open"
    /\ pendingTransferId' = [pendingTransferId EXCEPT ![c] = t]
    /\ notified' = <<[channel |-> "incoming-transfer", id |-> t]>>
    /\ activeDecisions' = MapSet(activeDecisions, t, c)
    /\ emitted' = <<>>
    /\ lastRequest' = [conn |-> c, id |-> t]
    /\ UNCHANGED sockState

\* socket.on('cancel-transfer')
OnCancelTransfer(c, t) ==
    /\ sockState[c] = "open"
    /\ IF t \in DOMAIN activeDecisions
       THEN /\ activeDecisions' = MapDelete(activeDecisions, t)
            /\ notified' = <<[channel |-> "cancel-transfer", id |-> t]>>
            /\ pendingTransferId' = [pendingTransferId EXCEPT ![c] = None]
       ELSE /\ notified' = <<>>
            /\ UNCHANGED <<activeDecisions, pendingTransferId>>
    /\ emitted' = <<>>
    /\ UNCHANGED <<sockState, lastRequest>>

\* A disconnect handler that leaves the PendingDecision of the socket alone.
OnDisconnectNoCleanup(c) ==
    /\ sockState[c] = "open"
    /\ sockState' = [sockState EXCEPT ![c] = "closed"]
    /\ notified' = <<>>
    /\ emitted' = <<>>
    /\ UNCHANGED <<activeDecisions, pendingTransferId, lastRequest>>

\* socket.on('disconnect')
OnDisconnect(c) ==
    /\ sockState[c] = "open"
    /\ sockState' = [sockState EXCEPT ![c] = "closed"]
    /\ IF pendingTransferId[c] # None /\ pendingTransferId[c] \in DOMAIN activeDecisions
       THEN /\ activeDecisions' = MapDelete(activeDecisions, pendingTransferId[c])
            /\ notified' = <<[channel |-> "cancel-transfer", id |-> pendingTransferId[c]]>>
       ELSE /\ notified' = <<>>
            /\ UNCHANGED activeDecisions
    /\ emitted' = <<>>
    /\ UNCHANGED <<pendingTransferId, lastRequest>>

\* handleDecision(transferId, allowed): the callback registered for the id
\* emits on its own socket and clears its own closure's pendingTransferId.
HandleDecision(t, allowed) ==
    /\ IF t \in DOMAIN activeDecisions
       THEN /\ emitted' = <<[conn |-> activeDecisions[t], id |-> t, allowed |-> allowed]>>
            /\ pendingTransferId' =
                   [pendingTransferId EXCEPT ![activeDecisions[t]] = None]
            /\ activeDecisions' = MapDelete(activeDecisions, t)
       ELSE /\ emitted' = <<>>
            /\ UNCHANGED <<activeDecisions, pendingTransferId>>
    /\ notified' = <<>>
    /\ UNCHANGED <<sockState, lastRequest>>

\* =========================================================================
\* Certificates and fingerprints
\* =========================================================================
\* The certificate of the server the initiator reaches, and another one.
serverCert == "certL"
Certs == {"certL", "certM"}

\* crypto.createHash('sha256').update(bytes).digest('hex'): the digest of one
\* encoding of a certificate, as a lower-case hex string.
Sha256Hex(enc, cert) == [enc |-> enc, cert |-> cert, upper |-> FALSE]

\* String.toUpperCase on a hex string.
ToUpperCase(h) == [h EXCEPT !.upper = TRUE]

\* generateCerts: the fingerprint a host advertises (digest of pems.cert).
certHash(cert) == ToUpperCase(Sha256Hex("pem", cert))

\* checkServerIdentity: the fingerprint computed from cert.raw.
serverFp(cert) == ToUpperCase(Sha256Hex("der", cert))

\* checkServerIdentity(_hostname, cert): the error message, or None.
checkServerIdentity(cert, expected) ==
    IF serverFp(cert) # expected THEN "Fingerprint mismatch!" ELSE None

\* rejectUnauthorized of the https.Agent of 'start-upload'.
rejectUnauthorized == FALSE

\* The verification error of the TLS client at the end of the handshake: the
\* error of the certificate chain if there is one (the certificate made by
\* generateCerts is self-signed and the agent names no ca), otherwise the
\* result of checkServerIdentity, which is called only for a chain that
\* verifies.
verifyError(chainOk, cert, expected) ==
    IF ~chainOk THEN "DEPTH_ZERO_SELF_SIGNED_CERT"
    ELSE checkServerIdentity(cert, expected)

\* The TLS client destroys the connection on a verification error only when
\* rejectUnauthorized is not false.
TlsRejects(chainOk, cert, expected) ==
    rejectUnauthorized /\ verifyError(chainOk, cert, expected) # None

\* The fingerprints a PeerRecord may carry for the server: the one checkServerIdentity
\* computes, the same in lower case, the one generateCerts advertises, and
\* the one of another certificate.
ExpectedFps ==
    {serverFp(serverCert), Sha256Hex("der", serverCert),
     certHash(serverCert), serverFp("certM")}

\* =========================================================================
\* Activities (App.tsx)
\* =========================================================================
NaN == 0 - 1
Infinity == 0 - 2

\* Math.round((a / b) * 100)
Round100(a, b) ==
    IF b = 0 THEN (IF a = 0 THEN NaN ELSE Infinity)
    ELSE (200 * a + b) \div (2 * b)

NoActivity ==
    [type |-> None, status |-> None, progress |-> 0, isCompleted |-> FALSE,
     error |-> None, savePath |-> None]

\* handleStatusUpdate: the activity after a 'transfer-status' update.
handleStatusUpdate(activity, update) ==
    IF activity.type = None THEN activity
    ELSE IF update.status = "progress"
    THEN [activity EXCEPT
            !.progress = IF update.progress = NaN THEN 0 ELSE update.progress,
            !.status = IF activity.type = "sending" THEN "Uploading..."
                       ELSE "Downloading..."]
    ELSE IF update.status = "completed"
    THEN [activity EXCEPT !.isCompleted = TRUE, !.progress = 100,
                          !.savePath = update.path, !.status = "Completed"]
    ELSE IF update.status = "error"
    THEN [activity EXCEPT !.status = "Error", !.error = update.message]
    ELSE activity

\* The statuses after which the spec allows no further transition.
TerminalStatuses == {"Denied by recipient", "Timed out", "Success", "Error"}

\* =========================================================================
\* Initiator and listener over the network
\* =========================================================================
theConn == "c1"
transferId == "t1"

FileLists ==
    UNION {[1..n -> 0..MaxFileSize] : n \in 1..MaxFiles}

SumSizes(f) ==
    LET S[i \in 0..Len(f)] == IF i = 0 THEN 0 ELSE S[i - 1] + f[i]
    IN S[Len(f)]

NoUpload == [phase |-> "idle", size |-> 0, read |-> 0, sent |-> 0, err |-> None]
NewUpload(size) ==
    [phase |-> "tls", size |-> size, read |-> 0, sent |-> 0, err |-> None]

\* What the listener's window may be sent for a transfer by the upload route.
StatusUpdates ==
    {[status |-> "progress", progress |-> 50],
     [status |-> "completed", path |-> "downloads/file"],
     [status |-> "error", message |-> "EIO"]}

\* The update of handleStatusUpdate applied to every activity.
UpdateAllActivities(acts, t, update) ==
    [u \in DOMAIN acts |-> handleStatusUpdate(acts[u], update)]

\* setActivities(prev => ...) of handleStatusUpdate: only prev[update.id].
UpdateActivities(acts, t, update) ==
    [acts EXCEPT ![t] = handleStatusUpdate(acts[t], update)]

\* setActivities of App.handleDecision(true): a new receiving activity.
NewReceiving(acts, t) ==
    [acts EXCEPT ![t] = [NoActivity EXCEPT !.type = "receiving",
                                           !.status = "Downloading..."]]

InitTransferIdle ==
    /\ activities = [t \in TransferIds |-> NoActivity]
    /\ netBytes = 0
    /\ nCompleted = 0
    /\ incomingTransfer = None
    /\ rxAct = NoActivity
    /\ ipcDecisions = <<>>
    /\ withdrawn = None
    /\ selectedFiles = <<>>
    /\ expectedFingerprint = serverFp(serverCert)
    /\ act = NoActivity
    /\ timeoutId = "unset"
    /\ closeTimer = "unset"
    /\ sock = "none"
    /\ loop = [pc |-> "idle", k |-> 0, totalUploaded |-> 0]
    /\ up = NoUpload
    /\ toL = <<>>
    /\ toI = <<>>

\* The 'transfer-decision' messages of a step that reach the client socket.
Delivered(e) == SelectSeq(e, LAMBDA m : m.conn = theConn)

\* The approval surface after the step's notifications: handleIncomingTransfer
\* sets the request shown, handleCancelTransfer clears it if it is the one.
ApplyNotified(shown, n) ==
    IF n = <<>> THEN shown
    ELSE IF n[1].channel = "incoming-transfer" THEN n[1].id
    ELSE IF shown = n[1].id THEN None ELSE shown

\* socket.disconnect() on the client: the listener sees 'disconnect' after
\* what was sent before.
ClientDisconnect ==
    /\ sock' = "closed"
    /\ toL' = IF sock = "open" THEN Append(toL, [type |-> "disconnect", id |-> None])
              ELSE toL
    /\ toI' = <<>>

\* handleSend, up to its first wait.
HandleSend(files, fp) ==
    /\ act.type = None
    /\ Len(files) > 0
    /\ selectedFiles' = files
    /\ expectedFingerprint' = fp
    /\ sock' = "open"
    /\ act' = [NoActivity EXCEPT !.type = "sending",
                                 !.status = "Waiting for permission..."]
    /\ toL' = Append(toL, [type |-> "request-transfer", id |-> transferId])
    /\ timeoutId' = "armed"
    /\ evt' = [kind |-> "handleSend"]
    /\ UNCHANGED <<appVars, uploadVars, discVars, listenerVars, routeVars, uiVars, closeTimer, loop, up, toI>>
    /\ UNCHANGED <<activities, osVars>>

\* The listener accepts the initiator's connection.
NetConnect ==
    /\ toL # <<>>
    /\ OnConnection(theConn)
    /\ evt' = [kind |-> "connection", conn |-> theConn]
    /\ UNCHANGED <<appVars, uploadVars, discVars, xferVars>>
    /\ UNCHANGED <<activities, osVars>>

\* The listener handles the next message of the initiator's socket.
NetToListener ==
    /\ toL # <<>>
    /\ LET m == Head(toL) IN
       /\ CASE m.type = "request-transfer" -> OnRequestTransfer(theConn, m.id)
            [] m.type = "cancel-transfer" -> OnCancelTransfer(theConn, m.id)
            [] m.type = "disconnect" -> OnDisconnect(theConn)
       /\ evt' = [kind |-> m.type, conn |-> theConn, id |-> m.id]
    /\ toL' = Tail(toL)
    /\ incomingTransfer' = ApplyNotified(incomingTransfer, notified')
    /\ withdrawn' = IF /\ notified' # <<>>
                       /\ notified'[1] = [channel |-> "cancel-transfer", id |-> transferId]
                    THEN Head(toL).type ELSE withdrawn
    /\ UNCHANGED <<appVars, uploadVars, discVars, routeVars, rxAct, ipcDecisions, initiatorVars, toI>>
    /\ UNCHANGED <<activities, osVars>>

\* App.handleDecision(allowed) on the listener's host: the user decides the
\* request shown.
UiDecide(allowed) ==
    /\ incomingTransfer # None
    /\ rxAct' = IF allowed
                THEN [NoActivity EXCEPT !.type = "receiving", !.status = "Downloading..."]
                ELSE rxAct
    /\ ipcDecisions' = Append(ipcDecisions, [id |-> incomingTransfer, allowed |-> allowed])
    /\ incomingTransfer' = None
    /\ UNCHANGED withdrawn
    /\ evt' = [kind |-> "uiDecision", id |-> incomingTransfer, allowed |-> allowed]
    /\ UNCHANGED <<appVars, uploadVars, discVars, listenerVars, routeVars, initiatorVars, netVars>>
    /\ UNCHANGED <<activities, osVars>>

\* ipcMain.on('transfer-decision') on the listener's host.
MainDecision ==
    /\ ipcDecisions # <<>>
    /\ HandleDecision(Head(ipcDecisions).id, Head(ipcDecisions).allowed)
    /\ ipcDecisions' = Tail(ipcDecisions)
    /\ toI' = IF sock = "open" THEN toI \o Delivered(emitted') ELSE toI
    /\ evt' = [kind |-> "handleDecision", id |-> Head(ipcDecisions).id,
               allowed |-> Head(ipcDecisions).allowed]
    /\ UNCHANGED <<appVars, uploadVars, discVars, routeVars, incomingTransfer, rxAct, withdrawn,
                   initiatorVars, toL>>
    /\ UNCHANGED <<activities, osVars>>

\* A timeout callback that leaves the connection open.
TimeoutKeepsConnection ==
    /\ timeoutId = "armed"
    /\ timeoutId' = "fired"
    /\ act' = [act EXCEPT !.status = "Timed out", !.error = "Recipient did not respond."]
    /\ toL' = IF sock = "open"
              THEN Append(toL, [type |-> "cancel-transfer", id |-> transferId])
              ELSE toL
    /\ evt' = [kind |-> "timeout"]
    /\ UNCHANGED <<appVars, uploadVars, discVars, listenerVars, routeVars, uiVars, selectedFiles,
                   expectedFingerprint, sock, loop, up, toI, closeTimer>>
    /\ UNCHANGED <<activities, osVars>>

\* setTimeout(..., 30000) fires.
Timeout ==
    /\ timeoutId = "armed"
    /\ timeoutId' = "fired"
    /\ act' = [act EXCEPT !.status = "Timed out", !.error = "Recipient did not respond."]
    /\ toL' = IF sock = "open"
              THEN Append(toL, [type |-> "cancel-transfer", id |-> transferId])
              ELSE toL
    /\ closeTimer' = "armed"
    /\ evt' = [kind |-> "timeout"]
    /\ UNCHANGED <<appVars, uploadVars, discVars, listenerVars, routeVars, uiVars, selectedFiles,
                   expectedFingerprint, sock, loop, up, toI>>
    /\ UNCHANGED <<activities, osVars>>

\* setTimeout(() => socket.disconnect(), 100) fires.
CloseTimer ==
    /\ closeTimer = "armed"
    /\ closeTimer' = "fired"
    /\ ClientDisconnect
    /\ evt' = [kind |-> "closeTimer"]
    /\ UNCHANGED <<appVars, uploadVars, discVars, listenerVars, routeVars, uiVars, selectedFiles,
                   expectedFingerprint, act, timeoutId, loop, up>>
    /\ UNCHANGED <<activities, osVars>>

\* socket.on('transfer-decision') on the initiator, up to its first wait:
\* on allowed, the first 'start-upload' is invoked; otherwise the socket is
\* closed.
OnTransferDecision ==
    /\ sock = "open"
    /\ toI # <<>>
    /\ timeoutId' = IF timeoutId = "armed" THEN "cleared" ELSE timeoutId
    /\ IF Head(toI).allowed
       THEN /\ act' = [act EXCEPT !.status = "Uploading: file"]
            /\ loop' = [pc |-> "await", k |-> 1, totalUploaded |-> 0]
            /\ up' = NewUpload(selectedFiles[1])
            /\ toI' = Tail(toI)
            /\ UNCHANGED <<sock, toL>>
       ELSE /\ act' = [act EXCEPT !.status = "Denied by recipient"]
            /\ ClientDisconnect
            /\ UNCHANGED <<loop, up>>
    /\ evt' = [kind |-> "transfer-decision", allowed |-> Head(toI).allowed]
    /\ UNCHANGED <<appVars, uploadVars, discVars, listenerVars, routeVars, uiVars, selectedFiles,
                   expectedFingerprint, closeTimer>>
    /\ UNCHANGED <<activities, osVars>>

\* A 'transfer-decision' message arrives on the initiator's connection from
\* the remote end, which is any host that answered at the peer's address:
\* the id and the flag are the sender's choice.  Following one sequence of
\* uploads, the model lets a positive decision arrive only while none runs.
PeerDecision(id, allowed) ==
    /\ sock = "open"
    /\ toI = <<>>
    /\ allowed => loop.pc = "idle"
    /\ toI' = <<[conn |-> theConn, id |-> id, allowed |-> allowed]>>
    /\ evt' = [kind |-> "peerDecision", id |-> id, allowed |-> allowed]
    /\ UNCHANGED <<appVars, uploadVars, discVars, listenerVars, routeVars, uiVars, selectedFiles,
                   expectedFingerprint, act, sock, timeoutId, closeTimer, loop, up, toL>>
    /\ UNCHANGED <<activities, osVars>>

\* The connection is lost: both ends see a disconnect, messages in flight
\* may be lost.
NetDrop(n) ==
    /\ sock = "open"
    /\ sockState[theConn] = "open"
    /\ n \in 0..Len(toL)
    /\ sock' = "closed"
    /\ toL' = Append(SubSeq(toL, 1, n), [type |-> "disconnect", id |-> None])
    /\ toI' = <<>>
    /\ evt' = [kind |-> "netDrop"]
    /\ UNCHANGED <<appVars, uploadVars, discVars, listenerVars, routeVars, uiVars, selectedFiles,
                   expectedFingerprint, act, timeoutId, closeTimer, loop, up>>
    /\ UNCHANGED <<activities, osVars>>

\* fileStream.on('data') in 'start-upload': a chunk is read, and its progress
\* event reaches handleStatusUpdate of the initiator's renderer.  Nothing in
\* the handler stops the stream when the request fails.
ReadChunk ==
    /\ up.phase \in {"tls", "stream", "failed", "dead"}
    /\ up.read < up.size
    /\ up' = [up EXCEPT !.read = up.read + 1]
    /\ act' = handleStatusUpdate(act,
                 [status |-> "progress", progress |-> Round100(up.read + 1, up.size)])
    /\ evt' = [kind |-> "readChunk"]
    /\ UNCHANGED <<appVars, uploadVars, discVars, listenerVars, routeVars, uiVars, selectedFiles,
                   expectedFingerprint, timeoutId, closeTimer, sock, loop, netVars>>
    /\ UNCHANGED <<activities, osVars>>

\* The TLS handshake of axios.post through the agent: the chain of the
\* server's certificate verifies against the default authorities or not, and
\* the request goes out unless the client rejects the connection.
TlsHandshake ==
    /\ up.phase = "tls"
    /\ \E chainOk \in BOOLEAN :
          up' = IF TlsRejects(chainOk, serverCert, expectedFingerprint)
                THEN [up EXCEPT !.phase = "failed",
                                !.err = verifyError(chainOk, serverCert, expectedFingerprint)]
                ELSE [up EXCEPT !.phase = "stream"]
    /\ evt' = [kind |-> "tlsHandshake"]
    /\ UNCHANGED <<appVars, uploadVars, discVars, listenerVars, routeVars, uiVars, selectedFiles,
                   expectedFingerprint, act, timeoutId, closeTimer, sock, loop, netVars>>
    /\ UNCHANGED <<activities, osVars>>

\* req.on('data') of the /upload route: a chunk of the body arrives.
SendChunk ==
    /\ up.phase = "stream"
    /\ up.sent < up.read
    /\ up' = [up EXCEPT !.sent = up.sent + 1]
    /\ netBytes' = netBytes + 1
    /\ rxAct' = IF up.size > 0
                THEN handleStatusUpdate(rxAct,
                        [status |-> "progress",
                         progress |-> Round100(up.sent + 1, up.size)])
                ELSE rxAct
    /\ evt' = [kind |-> "sendChunk"]
    /\ UNCHANGED <<appVars, uploadVars, discVars, listenerVars, nCompleted, incomingTransfer, ipcDecisions,
                   withdrawn, selectedFiles, expectedFingerprint, act, timeoutId, closeTimer,
                   sock, loop, netVars>>
    /\ UNCHANGED <<activities, osVars>>

\* writeStream.on('finish'): 200 and a 'completed' status with the path.
ListenerFinish ==
    /\ up.phase = "stream"
    /\ up.sent = up.size
    /\ up' = [up EXCEPT !.phase = "responded"]
    /\ nCompleted' = nCompleted + 1
    /\ rxAct' = handleStatusUpdate(rxAct,
                   [status |-> "completed", path |-> "downloads/file"])
    /\ evt' = [kind |-> "finish", path |-> "downloads/file"]
    /\ UNCHANGED <<appVars, uploadVars, discVars, listenerVars, netBytes, incomingTransfer, ipcDecisions,
                   withdrawn, selectedFiles, expectedFingerprint, act, timeoutId, closeTimer,
                   sock, loop, netVars>>
    /\ UNCHANGED <<activities, osVars>>

\* writeStream.on('error'): 500 and an 'error' status.
ListenerWriteError ==
    /\ up.phase = "stream"
    /\ up' = [up EXCEPT !.phase = "failed",
                        !.err = "Request failed with status code 500"]
    /\ rxAct' = handleStatusUpdate(rxAct, [status |-> "error", message |-> "EIO"])
    /\ evt' = [kind |-> "writeError"]
    /\ UNCHANGED <<appVars, uploadVars, discVars, listenerVars, routeVars, incomingTransfer, ipcDecisions,
                   withdrawn, selectedFiles, expectedFingerprint, act, timeoutId, closeTimer,
                   sock, loop, netVars>>
    /\ UNCHANGED <<activities, osVars>>

\* An end-of-loop update that leaves the progress where the last file put it.
SuccessUpdateKeepsProgress(a) == [a EXCEPT !.status = "Success", !.isCompleted = TRUE]

\* The update of the activity after the loop over the files.
SuccessUpdate(a) ==
    [a EXCEPT !.status = "Success", !.isCompleted = TRUE, !.progress = 100]

\* A loop that goes on to the next file when an upload has failed.
UploadSettledContinues ==
    /\ loop.pc = "await"
    /\ up.phase \in {"responded", "failed"}
    /\ IF loop.k < Len(selectedFiles)
       THEN /\ act' = [act EXCEPT !.status = "Uploading: file"]
            /\ loop' = [loop EXCEPT !.k = loop.k + 1]
            /\ up' = NewUpload(selectedFiles[loop.k + 1])
            /\ UNCHANGED <<sock, netVars>>
       ELSE /\ act' = IF up.phase = "responded" THEN SuccessUpdate(act)
                      ELSE [act EXCEPT !.status = "Error", !.error = up.err]
            /\ loop' = [loop EXCEPT !.pc = "done"]
            /\ up' = [up EXCEPT !.phase = IF up.phase = "responded" THEN "idle" ELSE "dead"]
            /\ ClientDisconnect
    /\ evt' = [kind |-> "uploadSettled", ok |-> up.phase = "responded"]
    /\ UNCHANGED <<appVars, uploadVars, discVars, listenerVars, routeVars, uiVars, selectedFiles,
                   expectedFingerprint, timeoutId, closeTimer>>
    /\ UNCHANGED <<activities, osVars>>

\* The awaited 'start-upload' settles in the decision handler: the next file
\* is invoked, or the loop ends in success, or the catch branch runs; at the
\* end of the handler the socket is closed.
UploadSettled ==
    /\ loop.pc = "await"
    /\ up.phase \in {"responded", "failed"}
    /\ IF up.phase = "responded"
       THEN LET total == loop.totalUploaded + up.size
                overall == Round100(total, SumSizes(selectedFiles))
            IN IF loop.k < Len(selectedFiles)
               THEN /\ act' = [act EXCEPT !.progress = overall,
                                          !.status = "Uploading: file"]
                    /\ loop' = [pc |-> "await", k |-> loop.k + 1, totalUploaded |-> total]
                    /\ up' = NewUpload(selectedFiles[loop.k + 1])
                    /\ UNCHANGED <<sock, netVars>>
               ELSE /\ act' = SuccessUpdate(act)
                    /\ loop' = [loop EXCEPT !.pc = "done", !.totalUploaded = total]
                    /\ up' = [up EXCEPT !.phase = "idle"]
                    /\ ClientDisconnect
       ELSE /\ act' = [act EXCEPT !.status = "Error", !.error = up.err]
            /\ loop' = [loop EXCEPT !.pc = "done"]
            /\ up' = [up EXCEPT !.phase = "dead"]
            /\ ClientDisconnect
    /\ evt' = [kind |-> "uploadSettled", ok |-> up.phase = "responded"]
    /\ UNCHANGED <<appVars, uploadVars, discVars, listenerVars, routeVars, uiVars, selectedFiles,
                   expectedFingerprint, timeoutId, closeTimer>>
    /\ UNCHANGED <<activities, osVars>>


\* =========================================================================
\* The main process: startup, windows, services (main.ts)
\* =========================================================================
Platforms == {"darwin", "linux"}

InitApp ==
    /\ platform \in Platforms
    /\ appQuit = FALSE
    /\ calls = <<>>
    /\ nWindows = 0
    /\ nCerts = 0
    /\ myKeys = 0
    /\ servers = <<>>
    /\ services = <<>>
    /\ nIntervals = 0
    /\ announced = {}
    /\ errorBoxes = 0

\* createWindow() is entered and reaches `await generateCerts()`.
EnterCreateWindow ==
    calls' = Append(calls, [pc |-> "certs", server |-> 0])

\* app.whenReady().then(createWindow)
WhenReady ==
    /\ ~appQuit
    /\ calls = <<>>
    /\ EnterCreateWindow
    /\ evt' = [kind |-> "ready"]
    /\ UNCHANGED <<platform, appQuit, nWindows, nCerts, myKeys, servers, services,
                   nIntervals, announced, errorBoxes>>
    /\ UNCHANGED <<discVars, listenerVars, xferVars, uploadVars>>
    /\ UNCHANGED <<activities, osVars>>

\* app.on('activate') (emitted on macOS): createWindow() if no window is open.
Activate ==
    /\ ~appQuit
    /\ platform = "darwin"
    /\ calls # <<>>
    /\ Len(calls) < MaxCalls
    /\ evt' = [kind |-> "activate"]
    /\ IF nWindows = 0 THEN EnterCreateWindow ELSE UNCHANGED calls
    /\ UNCHANGED <<platform, appQuit, nWindows, nCerts, myKeys, servers, services,
                   nIntervals, announced, errorBoxes>>
    /\ UNCHANGED <<discVars, listenerVars, xferVars, uploadVars>>
    /\ UNCHANGED <<activities, osVars>>

\* A createWindow() that goes on after a failed generateCerts().
GenerateCertsSettlesUnchecked(i, ok) ==
    /\ ~appQuit
    /\ i \in DOMAIN calls
    /\ calls[i].pc = "certs"
    /\ nCerts' = IF ok THEN nCerts + 1 ELSE nCerts
    /\ myKeys' = IF ok THEN nCerts + 1 ELSE myKeys
    /\ errorBoxes' = IF ok THEN errorBoxes ELSE errorBoxes + 1
    /\ nWindows' = nWindows + 1
    /\ servers' = Append(servers, [cert |-> myKeys', port |-> 0])
    /\ calls' = [calls EXCEPT ![i] = [pc |-> "listen", server |-> Len(servers) + 1]]
    /\ evt' = [kind |-> "generateCerts", ok |-> ok]
    /\ UNCHANGED <<platform, appQuit, services, nIntervals, announced>>
    /\ UNCHANGED <<discVars, listenerVars, xferVars, uploadVars>>
    /\ UNCHANGED <<activities, osVars>>

\* generateCerts() settles in createWindow(). On success myKeys and
\* myFingerprint hold the new certificate, the window is made, the
\* TransferServer is constructed with myKeys and start() is awaited. On
\* failure generateCerts shows an error box and rethrows, and the catch of
\* createWindow shows another.
GenerateCertsSettles(i, ok) ==
    /\ ~appQuit
    /\ i \in DOMAIN calls
    /\ calls[i].pc = "certs"
    /\ IF ok
       THEN /\ nCerts' = nCerts + 1
            /\ myKeys' = nCerts + 1
            /\ nWindows' = nWindows + 1
            /\ servers' = Append(servers, [cert |-> nCerts + 1, port |-> 0])
            /\ calls' = [calls EXCEPT ![i] = [pc |-> "listen", server |-> Len(servers) + 1]]
            /\ UNCHANGED errorBoxes
       ELSE /\ errorBoxes' = errorBoxes + 2
            /\ calls' = [calls EXCEPT ![i].pc = "failed"]
            /\ UNCHANGED <<nCerts, myKeys, nWindows, servers>>
    /\ evt' = [kind |-> "generateCerts", ok |-> ok]
    /\ UNCHANGED <<platform, appQuit, services, nIntervals, announced>>
    /\ UNCHANGED <<discVars, listenerVars, xferVars, uploadVars>>
    /\ UNCHANGED <<activities, osVars>>

\* transferServer.start() resolves: listen(0) has bound a free port; the
\* MDNSService is constructed with it and with myFingerprint (a new
\* crypto.randomUUID() as its id) and the 3 s interval is scheduled.
ListenResolves(i) ==
    /\ ~appQuit
    /\ i \in DOMAIN calls
    /\ calls[i].pc = "listen"
    /\ LET k == calls[i].server IN
       /\ servers' = [servers EXCEPT ![k].port = k]
       /\ services' = Append(services,
              [id |-> Len(services) + 1, port |-> k, fingerprint |-> myKeys])
    /\ nIntervals' = nIntervals + 1
    /\ calls' = [calls EXCEPT ![i].pc = "done"]
    /\ evt' = [kind |-> "listening"]
    /\ UNCHANGED <<platform, appQuit, nWindows, nCerts, myKeys, announced, errorBoxes>>
    /\ UNCHANGED <<discVars, listenerVars, xferVars, uploadVars>>
    /\ UNCHANGED <<activities, osVars>>

\* The user closes the window; app.on('window-all-closed') quits the
\* application except on macOS.
CloseWindow ==
    /\ ~appQuit
    /\ nWindows > 0
    /\ nWindows' = nWindows - 1
    /\ appQuit' = (nWindows = 1 /\ platform # "darwin")
    /\ evt' = [kind |-> "closeWindow"]
    /\ UNCHANGED <<platform, calls, nCerts, myKeys, servers, services,
                   nIntervals, announced, errorBoxes>>
    /\ UNCHANGED <<discVars, listenerVars, xferVars, uploadVars>>
    /\ UNCHANGED <<activities, osVars>>

\* A query for the service name is received: the 'query' handler of every
\* MDNSService object of the process announces its own identity.
QueryReceived ==
    /\ ~appQuit
    /\ announced' = announced \cup {services[k] : k \in DOMAIN services}
    /\ evt' = [kind |-> "query", mine |-> TRUE]
    /\ UNCHANGED <<platform, appQuit, calls, nWindows, nCerts, myKeys, servers,
                   services, nIntervals, errorBoxes>>
    /\ UNCHANGED <<discVars, listenerVars, xferVars, uploadVars>>
    /\ UNCHANGED <<activities, osVars>>

\* One of the scheduled intervals fires: discover() and 'peer-list'.
IntervalFires ==
    /\ ~appQuit
    /\ nIntervals > 0
    /\ evt' = [kind |-> "interval", n |-> nIntervals]
    /\ UNCHANGED appVars
    /\ UNCHANGED <<discVars, listenerVars, xferVars, uploadVars>>
    /\ UNCHANGED <<activities, osVars>>

\* =========================================================================
\* The /upload route under arbitrary requests (TransferServer.setupRoutes)
\* =========================================================================
\* req.query.size: absent, empty, or a string.
SizeParams == {"absent", "", "0", "1", "2", "x"}

\* parseInt(req.query.size as string || '0')
ParseIntSize(q) ==
    CASE q \in {"absent", "", "0"} -> 0
      [] q = "1" -> 1
      [] q = "2" -> 2
      [] OTHER -> NaN

\* x > 0 in JavaScript (false for NaN).
Gt0(x) == x # NaN /\ x > 0

\* The progress events of a 'data' callback without the test on totalSize.
ProgressEventsUnguarded(receivedSize, totalSize) ==
    <<[status |-> "progress", progress |-> Round100(receivedSize, totalSize)]>>

\* The progress events of a 'data' callback: one if totalSize > 0.
ProgressEvents(receivedSize, totalSize) ==
    IF Gt0(totalSize)
    THEN <<[status |-> "progress", progress |-> Round100(receivedSize, totalSize)]>>
    ELSE <<>>

NoRequest ==
    [phase |-> "none", id |-> None, size |-> "absent", totalSize |-> 0,
     receivedSize |-> 0, body |-> 0, statuses |-> {}]

\* No file at savePath, and the file fs.createWriteStream opens.
NoFile == [exists |-> FALSE, bytes |-> 0]
NewFile == [exists |-> TRUE, bytes |-> 0]

InitUpload ==
    /\ rq = NoRequest
    /\ statusOut = <<>>
    /\ httpRes = 0
    /\ disk = NoFile

\* POST /upload arrives with an id, a size parameter and a body of some
\* length: the closure variables are set and the write stream is created.
UploadRequest(id, size, body) ==
    /\ rq.phase # "open"
    /\ rq' = [phase |-> "open", id |-> id, size |-> size,
              totalSize |-> ParseIntSize(size),
              receivedSize |-> 0, body |-> body, statuses |-> {}]
    /\ statusOut' = <<>>
    /\ httpRes' = 0
    /\ disk' = NewFile
    /\ evt' = [kind |-> "upload"]
    /\ UNCHANGED <<appVars, discVars, listenerVars, xferVars>>
    /\ UNCHANGED <<activities, osVars>>

\* req.on('data'): a chunk of the body arrives and is piped to the file.
UploadData ==
    /\ rq.phase \in {"open", "errored"}
    /\ rq.receivedSize < rq.body
    /\ rq' = [rq EXCEPT !.receivedSize = rq.receivedSize + 1]
    /\ statusOut' = ProgressEvents(rq.receivedSize + 1, rq.totalSize)
    /\ disk' = IF rq.phase = "open" THEN [disk EXCEPT !.bytes = disk.bytes + 1] ELSE disk
    /\ evt' = [kind |-> "uploadData"]
    /\ UNCHANGED httpRes
    /\ UNCHANGED <<appVars, discVars, listenerVars, xferVars>>
    /\ UNCHANGED <<activities, osVars>>

\* writeStream.on('finish'): the body has ended and is written.
UploadFinish ==
    /\ rq.phase = "open"
    /\ rq.receivedSize = rq.body
    /\ rq' = [rq EXCEPT !.phase = "finished", !.statuses = rq.statuses \cup {"completed"}]
    /\ httpRes' = 200
    /\ statusOut' = <<[status |-> "completed", path |-> "downloads/file"]>>
    /\ disk' = disk
    /\ evt' = [kind |-> "uploadFinish"]
    /\ UNCHANGED <<appVars, discVars, listenerVars, xferVars>>
    /\ UNCHANGED <<activities, osVars>>

\* A write-error handler that removes the partial file.
UploadWriteErrorUnlinks ==
    /\ rq.phase = "open"
    /\ rq' = [rq EXCEPT !.phase = "errored", !.statuses = rq.statuses \cup {"error"}]
    /\ httpRes' = 500
    /\ statusOut' = <<[status |-> "error", message |-> "EIO"]>>
    /\ disk' = NoFile
    /\ evt' = [kind |-> "uploadError"]
    /\ UNCHANGED <<appVars, discVars, listenerVars, xferVars>>
    /\ UNCHANGED <<activities, osVars>>

\* writeStream.on('error'): opening the file or a write failed.
UploadWriteError ==
    /\ rq.phase = "open"
    /\ rq' = [rq EXCEPT !.phase = "errored", !.statuses = rq.statuses \cup {"error"}]
    /\ httpRes' = 500
    /\ statusOut' = <<[status |-> "error", message |-> "EIO"]>>
    /\ disk' = disk
    /\ evt' = [kind |-> "uploadError"]
    /\ UNCHANGED <<appVars, discVars, listenerVars, xferVars>>
    /\ UNCHANGED <<activities, osVars>>

\* The client goes away before the body has ended.
UploadAborted ==
    /\ rq.phase = "open"
    /\ rq.receivedSize < rq.body
    /\ rq' = [rq EXCEPT !.phase = "aborted"]
    /\ statusOut' = <<>>
    /\ evt' = [kind |-> "uploadAborted"]
    /\ UNCHANGED <<httpRes, disk>>
    /\ UNCHANGED <<appVars, discVars, listenerVars, xferVars>>
    /\ UNCHANGED <<activities, osVars>>

\* =========================================================================
\* Specifications
\* =========================================================================
\* --- the discovery service ----------------------------------------------
NextDiscovery ==
    \/ \E a \in Arrivals : HandleResponse(a)
    \/ \E a \in Arrivals : HandleResponseMain(a)
    \/ \E names \in SUBSET QueryNames : HandleQuery(names)
    \/ Discover
    \/ GetPeers
    \/ Tick

InitDiscovery ==
    /\ InitDisc
    /\ evt = [kind |-> "start"]
    /\ InitListener
    /\ InitTransferIdle
    /\ InitApp /\ platform = "linux"
    /\ InitUpload
    /\ InitOs

SpecDiscovery == InitDiscovery /\ [][NextDiscovery]_vars

\* --- getLocalIp on the interfaces a host may have -------------------------
InitLocalIp ==
    /\ InitDisc
    /\ evt = [kind |-> "start"]
    /\ InitListener
    /\ InitTransferIdle
    /\ InitApp /\ platform = "linux"
    /\ InitUpload
    /\ interfaces \in InterfaceLists
    /\ localIp = NoIp

NextLocalIp == CallGetLocalIp

SpecLocalIp == InitLocalIp /\ [][NextLocalIp]_vars

\* --- the listener under arbitrary clients -------------------------------
InitL ==
    /\ InitDisc /\ mdnsClass = "MDNSService.ts"
    /\ evt = [kind |-> "start"]
    /\ InitListener
    /\ InitTransferIdle
    /\ InitApp /\ platform = "linux"
    /\ InitUpload
    /\ InitOs

ClientConnects(c) ==
    /\ OnConnection(c)
    /\ evt' = [kind |-> "connection", conn |-> c]
    /\ UNCHANGED <<appVars, uploadVars, discVars, xferVars>>
    /\ UNCHANGED <<activities, osVars>>

ClientRequests(c, t) ==
    /\ OnRequestTransfer(c, t)
    /\ evt' = [kind |-> "request-transfer", conn |-> c, id |-> t]
    /\ UNCHANGED <<appVars, uploadVars, discVars, xferVars>>
    /\ UNCHANGED <<activities, osVars>>

ClientCancels(c, t) ==
    /\ OnCancelTransfer(c, t)
    /\ evt' = [kind |-> "cancel-transfer", conn |-> c, id |-> t]
    /\ UNCHANGED <<appVars, uploadVars, discVars, xferVars>>
    /\ UNCHANGED <<activities, osVars>>

ClientDisconnects(c) ==
    /\ OnDisconnect(c)
    /\ evt' = [kind |-> "disconnect", conn |-> c]
    /\ UNCHANGED <<appVars, uploadVars, discVars, xferVars>>
    /\ UNCHANGED <<activities, osVars>>

\* App.handleDecision(allowed) for the request t, and the
\* ipcMain.on('transfer-decision') it triggers:
\* transferServer.handleDecision(id, allowed)
IpcDecision(t, allowed) ==
    /\ HandleDecision(t, allowed)
    /\ activities' = IF allowed THEN NewReceiving(activities, t) ELSE activities
    /\ evt' = [kind |-> "handleDecision", id |-> t, allowed |-> allowed]
    /\ UNCHANGED <<appVars, uploadVars, discVars, xferVars>>
    /\ UNCHANGED osVars

\* The upload route sends a 'transfer-status' event for the id of an upload.
TransferStatus(t, update) ==
    /\ activities' = UpdateActivities(activities, t, update)
    /\ evt' = [kind |-> "transfer-status", id |-> t, status |-> update.status]
    /\ emitted' = <<>>
    /\ notified' = <<>>
    /\ UNCHANGED <<activeDecisions, pendingTransferId, sockState, lastRequest>>
    /\ UNCHANGED <<appVars, uploadVars, discVars, xferVars>>
    /\ UNCHANGED osVars

NextListener ==
    \/ \E c \in Conns : ClientConnects(c)
    \/ \E c \in Conns, t \in TransferIds : ClientRequests(c, t)
    \/ \E c \in Conns, t \in TransferIds : ClientCancels(c, t)
    \/ \E c \in Conns : ClientDisconnects(c)
    \/ \E t \in TransferIds, allowed \in BOOLEAN : IpcDecision(t, allowed)
    \/ \E t \in TransferIds, update \in StatusUpdates : TransferStatus(t, update)

SpecListener == InitL /\ [][NextListener]_vars

\* --- the listener and its approval surface under arbitrary clients --------
\* A socket event of the listener, and the window's handleIncomingTransfer /
\* handleCancelTransfer for what the handler sent to it.
SurfaceEvent(kind, c, t) ==
    /\ CASE kind = "connection" -> OnConnection(c)
         [] kind = "request-transfer" -> OnRequestTransfer(c, t)
         [] kind = "cancel-transfer" -> OnCancelTransfer(c, t)
         [] kind = "disconnect" -> OnDisconnect(c)
    /\ incomingTransfer' = ApplyNotified(incomingTransfer, notified')
    /\ evt' = [kind |-> kind, conn |-> c, id |-> t]
    /\ UNCHANGED <<appVars, uploadVars, discVars, routeVars, rxAct, ipcDecisions,
                   withdrawn, initiatorVars, netVars>>
    /\ UNCHANGED <<activities, osVars>>

\* App.handleDecision(allowed): the user decides the request shown, and the
\* ipcMain.on('transfer-decision') it triggers.
SurfaceDecision(allowed) ==
    /\ incomingTransfer # None
    /\ HandleDecision(incomingTransfer, allowed)
    /\ activities' = IF allowed THEN NewReceiving(activities, incomingTransfer)
                     ELSE activities
    /\ incomingTransfer' = None
    /\ evt' = [kind |-> "handleDecision", conn |-> None, id |-> incomingTransfer]
    /\ UNCHANGED <<appVars, uploadVars, discVars, routeVars, rxAct, ipcDecisions,
                   withdrawn, initiatorVars, netVars>>
    /\ UNCHANGED osVars

NextApproval ==
    \/ \E c \in Conns : SurfaceEvent("connection", c, None)
    \/ \E c \in Conns, t \in TransferIds : SurfaceEvent("request-transfer", c, t)
    \/ \E c \in Conns, t \in TransferIds : SurfaceEvent("cancel-transfer", c, t)
    \/ \E c \in Conns : SurfaceEvent("disconnect", c, None)
    \/ \E allowed \in BOOLEAN : SurfaceDecision(allowed)

SpecApproval == InitL /\ [][NextApproval]_vars

\* --- the main process ----------------------------------------------------
InitMain ==
    /\ InitDisc /\ mdnsClass = "main.ts"
    /\ evt = [kind |-> "start"]
    /\ InitListener
    /\ InitTransferIdle
    /\ InitApp
    /\ InitUpload
    /\ InitOs

NextApp ==
    \/ WhenReady
    \/ Activate
    \/ \E i \in 1..MaxCalls, ok \in BOOLEAN : GenerateCertsSettles(i, ok)
    \/ \E i \in 1..MaxCalls : ListenResolves(i)
    \/ CloseWindow
    \/ QueryReceived
    \/ IntervalFires

SpecApp == InitMain /\ [][NextApp]_vars

\* --- the upload route ---------------------------------------------------
NextUpload ==
    \/ \E id \in TransferIds, size \in SizeParams, body \in 0..MaxBody :
          UploadRequest(id, size, body)
    \/ \E t \in TransferIds, allowed \in BOOLEAN : IpcDecision(t, allowed)
    \/ UploadData
    \/ UploadFinish
    \/ UploadWriteError
    \/ UploadAborted

SpecUpload == InitL /\ [][NextUpload]_vars

\* The same with progress of what the listener's process does by itself: a
\* chunk that has arrived is handled and a body that has ended is flushed.
\* Requests, aborts and write errors come from outside and are not forced.
SpecUploadLive ==
    SpecUpload /\ WF_vars(UploadData) /\ WF_vars(UploadFinish)

\* --- one initiator and one listener -------------------------------------
Init ==
    /\ InitDisc /\ mdnsClass = "MDNSService.ts"
    /\ evt = [kind |-> "start"]
    /\ InitListener
    /\ InitTransferIdle
    /\ InitApp /\ platform = "linux"
    /\ InitUpload
    /\ InitOs

Next ==
    \/ \E files \in FileLists, fp \in ExpectedFps : HandleSend(files, fp)
    \/ NetConnect
    \/ NetToListener
    \/ \E allowed \in BOOLEAN : UiDecide(allowed)
    \/ MainDecision
    \/ OnTransferDecision
    \/ Timeout
    \/ CloseTimer
    \/ \E n \in 0..Len(toL) : NetDrop(n)
    \/ ReadChunk
    \/ TlsHandshake
    \/ SendChunk
    \/ ListenerFinish
    \/ ListenerWriteError
    \/ UploadSettled

Spec == Init /\ [][Next]_vars

\* The initiator facing an arbitrary remote end: what arrives on the
\* connection is the remote end's choice.
NextPeer ==
    \/ \E files \in FileLists, fp \in ExpectedFps : HandleSend(files, fp)
    \/ \E id \in TransferIds, allowed \in BOOLEAN : PeerDecision(id, allowed)
    \/ OnTransferDecision
    \/ Timeout
    \/ CloseTimer
    \/ ReadChunk
    \/ TlsHandshake
    \/ SendChunk
    \/ ListenerFinish
    \/ ListenerWriteError
    \/ UploadSettled

SpecPeer == Init /\ [][NextPeer]_vars

\* The same with the timers of handleSend running: a setTimeout that is
\* armed and not cleared fires.  The network, the listener's user and the
\* uploads are not forced to make progress.
SpecLive == Spec /\ WF_vars(Timeout) /\ WF_vars(CloseTimer)

\* =========================================================================
\* Claims about the discovery service (checked under SpecDiscovery)
\* =========================================================================

\* C8: a response that lacks the PTR answer, the TXT, SRV or A additional,
\* or one of the id=, name=, fp= tokens leaves the peer table exactly as it
\* was.
C8_IncompleteResponseLeavesTable ==
    [][(evt'.kind = "response" /\ evt'.lacks) => peers' = peers]_vars

\* An incomplete response was handled while the table held a record.
C8_Witness ==
    /\ evt.kind = "response" /\ evt.lacks
    /\ peers # EmptyTable

\* C9: neither the peer table nor a list returned by getPeers() ever holds
\* a record with the local id, also after the own announcement looped back.
C9_NeverOwnId ==
    /\ myId \notin DOMAIN peers
    /\ \A i \in DOMAIN peers : peers[i].id # myId
    /\ \A rec \in peerList.list : rec.id # myId

\* getPeers() returned a non-empty list after the own announcement was heard.
C9_Witness ==
    /\ heardSelf
    /\ evt.kind = "getPeers"
    /\ peerList.called /\ peerList.list # {}

\* The records of table p, other than id, that have address ip.
OthersAt(p, ip, id) == {a \in DOMAIN p : a # id /\ p[a].ip = ip}

\* C10: when the table holds a record with ip X and id A and a valid
\* foreign response arrives with ip X and id B # A, then afterwards the
\* table holds B, holds no such A, and exactly one record has ip X.
C10_RestartEvictsSameIp ==
    [][(/\ evt'.kind = "response" /\ ~evt'.lacks /\ evt'.id # myId
        /\ OthersAt(peers, evt'.ip, evt'.id) # {})
       => (/\ evt'.id \in DOMAIN peers'
           /\ OthersAt(peers, evt'.ip, evt'.id) \cap DOMAIN peers' = {}
           /\ Cardinality({i \in DOMAIN peers' : peers'[i].ip = evt'.ip}) = 1)]_vars

\* =========================================================================
\* Claims about the listener under arbitrary clients (SpecListener)
\* =========================================================================

\* The ids for which the step emitted a 'transfer-decision'.
DecidedIn(e) == {e[i].id : i \in DOMAIN e}

\* C3: for every transferId and every sequence of handleDecision,
\* cancel-transfer and disconnect events, the registered PendingDecision is
\* resolved at most once, the first of these signals removes it from
\* activeDecisions, and a later handleDecision or cancel-transfer for the id
\* emits nothing, notifies nothing and leaves activeDecisions unchanged.
\* The disconnect conjunct speaks of the PendingDecision registered by the
\* latest request-transfer, so that only handleDecision, cancel-transfer and
\* disconnect events lie between its registration and the disconnect.
C3_SignalsResolveOnce ==
    [][/\ (/\ evt'.kind \in {"handleDecision", "cancel-transfer"}
           /\ evt'.id \notin DOMAIN activeDecisions)
          => (/\ emitted' = <<>> /\ notified' = <<>>
              /\ activeDecisions' = activeDecisions)
       /\ (/\ evt'.kind \in {"handleDecision", "cancel-transfer"}
           /\ evt'.id \in DOMAIN activeDecisions)
          => evt'.id \notin DOMAIN activeDecisions'
       /\ (/\ evt'.kind = "disconnect"
           /\ lastRequest.conn = evt'.conn
           /\ lastRequest.id \in DOMAIN activeDecisions
           /\ activeDecisions[lastRequest.id] = evt'.conn)
          => lastRequest.id \notin DOMAIN activeDecisions'
       /\ \A t \in DecidedIn(emitted') :
             t \in DOMAIN activeDecisions /\ t \notin DOMAIN activeDecisions'
      ]_vars

\* =========================================================================
\* Claims about one initiator and one listener (checked under Spec)
\* =========================================================================

\* The server's certificate does not have the fingerprint of the PeerRecord.
Mismatch == serverFp(serverCert) # expectedFingerprint

\* C1: when the certificate the server presents has a fingerprint different
\* from the one recorded for the peer, the transfer is aborted (no upload
\* gets past the handshake, none is started after the first, the handler
\* ends with the error recorded) and no byte of file data reaches the
\* server.
C1_MismatchSendsNoFileData ==
    (act.type # None /\ Mismatch)
    => (/\ netBytes = 0
        /\ nCompleted = 0
        /\ up.phase \notin {"stream", "responded"}
        /\ loop.k <= 1
        /\ loop.pc = "done" => (act.status = "Error" /\ ~act.isCompleted))

\* C2: when the server's fingerprint differs from the PeerRecord's, no
\* request-transfer message is ever emitted on the connection.
C2_NoRequestBeforePinning ==
    (act.type # None /\ Mismatch)
    => (/\ \A i \in DOMAIN toL : toL[i].type # "request-transfer"
        /\ lastRequest.id = None)

\* C4: once the sending activity is Denied, Timed out, Success or Error, no
\* later event changes its status, progress, error or isCompleted, and no
\* upload is started.
C4_TerminalStatusesAreFinal ==
    [][act.status \in TerminalStatuses
       => (/\ act'.status = act.status
           /\ act'.progress = act.progress
           /\ act'.error = act.error
           /\ act'.isCompleted = act.isCompleted
           /\ (up'.phase = "tls" => up.phase = "tls"))]_vars

\* The timeout fired before any decision reached the initiator, the listener
\* had received the request, and everything sent has been handled.
TimedOutAndSettled ==
    /\ timeoutId = "fired"
    /\ closeTimer = "fired"
    /\ lastRequest.id = transferId
    /\ toL = <<>>
    /\ ipcDecisions = <<>>

\* C5: when no decision reaches the initiator before the timeout, the
\* activity becomes 'Timed out', cancel-transfer is emitted and the
\* connection closed, and in the end the listener's activeDecisions does not
\* hold the id and its approval surface has been told of the withdrawal.
C5_TimeoutWithdrawsRequest ==
    [][/\ evt'.kind = "timeout"
          => (/\ act'.status = "Timed out"
              /\ sock = "open"
                 => toL' = Append(toL, [type |-> "cancel-transfer", id |-> transferId])
              /\ closeTimer' = "armed")
       /\ TimedOutAndSettled'
          => (/\ sock' = "closed"
              /\ transferId \notin DOMAIN activeDecisions'
              /\ withdrawn' # None)]_vars

\* C6: when the initiator's socket disconnects while its PendingDecision is
\* outstanding, the listener removes it and sends cancel-transfer for the id
\* to the approval surface, which drops the request if shown; a
\* handleDecision for an id that is not pending emits nothing and changes
\* nothing on the listener.
C6_DisconnectWithdraws ==
    [][/\ (evt'.kind = "disconnect" /\ transferId \in DOMAIN activeDecisions)
          => (/\ transferId \notin DOMAIN activeDecisions'
              /\ notified' = <<[channel |-> "cancel-transfer", id |-> transferId]>>
              /\ incomingTransfer' = None)
       /\ (evt'.kind = "handleDecision" /\ evt'.id \notin DOMAIN activeDecisions)
          => (/\ emitted' = <<>>
              /\ notified' = <<>>
              /\ UNCHANGED <<activeDecisions, pendingTransferId, sockState>>
              /\ UNCHANGED <<toI, incomingTransfer, rxAct, routeVars>>)]_vars

\* An accept decided by the user reached handleDecision after the drop of
\* the connection had withdrawn the request, and emitted nothing.
C6_Witness ==
    /\ evt.kind = "handleDecision" /\ evt.allowed
    /\ withdrawn = "disconnect"
    /\ sockState[theConn] = "closed"
    /\ emitted = <<>>

\* Every file of the transfer was uploaded and the handler has ended.
Succeeded == loop.pc = "done" /\ up.phase = "idle"

\* C7: when the request is accepted and every upload succeeds, the listener
\* has emitted a 'completed' status with the saved path for every file, and
\* the initiator's activity has progress 100 and isCompleted, for good.
C7_AcceptedTransferCompletes ==
    Succeeded
    => (/\ act.progress = 100 /\ act.isCompleted
        /\ nCompleted = Len(selectedFiles)
        /\ rxAct.isCompleted /\ rxAct.savePath = "downloads/file")

\* Two files were accepted before the timeout and uploaded.
C7_Witness ==
    /\ Succeeded
    /\ timeoutId = "cleared"
    /\ Len(selectedFiles) = 2
    /\ netBytes > 0

\* =========================================================================
\* Claims C11 .. C20
\* =========================================================================

\* C11: for every call of getPeers() at time now, every record whose
\* lastSeen is more than 30000 ms before now is absent from the returned
\* list and deleted from the peer table when the call returns.
C11_GetPeersSweepsStale ==
    [][evt'.kind = "getPeers"
       => \A i \in DOMAIN peers :
             (now - peers[i].lastSeen > StaleMs)
             => (/\ i \notin DOMAIN peers'
                 /\ peers[i] \notin peerList'.list
                 /\ \A rec \in peerList'.list : rec.id # i)]_vars

\* A getPeers() call swept a stale record and returned a fresh one.
C11_Witness ==
    /\ evt.kind = "getPeers"
    /\ evt.swept # {}
    /\ peerList.called /\ peerList.list # {}

\* C12: the local Identity is created once and never changes: after any
\* sequence of application events only one certificate has been generated,
\* only one listener and one discovery service exist, and every
\* announcement of the process carries the same id, fingerprint and port.
C12_IdentityCreatedOnce ==
    /\ nCerts <= 1
    /\ Len(servers) <= 1
    /\ Len(services) <= 1
    /\ Cardinality(announced) <= 1

\* The createWindow() calls at a given position.
CallsAt(pcs) == {i \in DOMAIN calls : calls[i].pc \in pcs}

C13_SequentialUploadsAbortOnFailure ==
    [][/\ loop'.k # loop.k
          => (/\ loop'.k = loop.k + 1
              /\ loop.k = 0 \/ (up.phase = "responded" /\ up.sent = up.size)
              /\ loop.k = 0 => (evt'.kind = "transfer-decision" /\ evt'.allowed)
              /\ up' = NewUpload(selectedFiles[loop'.k]))
       /\ (up'.phase = "tls" /\ up.phase # "tls") => loop'.k # loop.k
       /\ (evt'.kind = "uploadSettled" /\ ~evt'.ok)
          => (/\ loop'.pc = "done" /\ loop'.k = loop.k
              /\ act'.status = "Error" /\ act'.error = up.err /\ up.err # None
              /\ up'.phase = "dead")
       /\ loop.pc = "done" => (loop' = loop /\ up'.phase = up.phase)]_vars

\* The upload of the first of two files failed and the handler has ended.
C13_Witness ==
    /\ evt.kind = "uploadSettled" /\ ~evt.ok
    /\ Len(selectedFiles) = 2
    /\ loop = [pc |-> "done", k |-> 1, totalUploaded |-> 0]
    /\ act.status = "Error"

\* C14: every per-chunk progress value reported for the sending transfer is
\* round(100 * bytes of all files of the transfer handled so far / total
\* size of the selected files).
C14_ProgressIsCumulative ==
    [][evt'.kind = "readChunk"
       => act'.progress =
             Round100(loop.totalUploaded + up'.read, SumSizes(selectedFiles))]_vars

\* C15: each progress event of the upload endpoint carries
\* round(100 * bytes received so far / declared total size); when the size
\* parameter is 0 or absent (or no number) no progress event is emitted, and
\* no NaN or Infinity percentage is ever produced.
C15_EndpointProgress ==
    [][evt'.kind = "uploadData"
       => /\ rq.size \in {"absent", "", "0", "x"} => statusOut' = <<>>
          /\ rq.size \in {"1", "2"}
             => /\ Len(statusOut') = 1
                /\ statusOut'[1].status = "progress"
                /\ LET p == statusOut'[1].progress
                       t == rq.totalSize
                       r == rq'.receivedSize
                   IN 2 * t * p - t <= 200 * r /\ 200 * r < 2 * t * p + t
          /\ \A i \in DOMAIN statusOut' :
                statusOut'[i].progress \notin {NaN, Infinity}]_vars

\* A chunk arrived for a request that declared no size, and no event was sent.
C15_Witness ==
    /\ evt.kind = "uploadData"
    /\ rq.size = "absent"
    /\ rq.receivedSize > 0
    /\ statusOut = <<>>

\* C16: an upload written to completion emits 'completed' with the saved
\* path and answers 200; a failed write emits 'error' with the message,
\* answers 500 and leaves the partial file in place; 'completed' and 'error'
\* are never both emitted for one upload.
C16_CompletedOrError ==
    [][/\ evt'.kind = "uploadFinish"
          => (/\ rq.receivedSize = rq.body
              /\ disk' = [exists |-> TRUE, bytes |-> rq.body]
              /\ statusOut' = <<[status |-> "completed", path |-> "downloads/file"]>>
              /\ httpRes' = 200)
       /\ evt'.kind = "uploadError"
          => (/\ statusOut' = <<[status |-> "error", message |-> "EIO"]>>
              /\ httpRes' = 500
              /\ disk' = disk)
       /\ ~({"completed", "error"} \subseteq rq'.statuses)
       /\ (rq.statuses # {} /\ rq'.phase = rq.phase)
          => (httpRes' = httpRes /\ rq'.statuses = rq.statuses)]_vars

\* A write failed after one of two chunks; the partial file is still there.
C16_Witness ==
    /\ evt.kind = "uploadError"
    /\ rq.phase = "errored" /\ rq.body = 2
    /\ disk = [exists |-> TRUE, bytes |-> 1]
    /\ httpRes = 500

\* C17: the 30 s timeout is single-shot and is cancelled as soon as the
\* transfer is resolved (a decision is received, the connection is lost):
\* it fires only for a transfer still waiting for the decision on a live
\* connection, and a timer that fired or was cancelled never fires again.
C17_TimeoutCancelledOnResolution ==
    [][/\ evt'.kind = "timeout"
          => (/\ timeoutId = "armed"
              /\ sock = "open"
              /\ act.status = "Waiting for permission..."
              /\ loop.pc = "idle")
       /\ timeoutId \in {"fired", "cleared"} => timeoutId' = timeoutId
       /\ (evt'.kind \in {"transfer-decision", "netDrop"} /\ timeoutId = "armed")
          => timeoutId' = "cleared"]_vars

\* C18: the listener holds at most one PendingDecision per transferId, and a
\* registered one stays bound to the connection that registered it until it
\* is resolved or discarded: a second request-transfer with a pending id
\* does not replace or detach it.
C18_PendingDecisionStaysBound ==
    [][\A t \in DOMAIN activeDecisions \cap DOMAIN activeDecisions' :
          activeDecisions'[t] = activeDecisions[t]]_vars

\* The PendingDecision of t, if there is one, was registered by connection c.
Own(c, t) == t \in DOMAIN activeDecisions => activeDecisions[t] = c

\* The step leaves alone every transfer other than t that was registered by
\* a connection other than c: its PendingDecision, the closure of its
\* connection, its activity; and nothing is sent about another id.
OthersUntouched(c, t) ==
    /\ \A u \in TransferIds \ {t} :
          /\ activities'[u] = activities[u]
          /\ (u \in DOMAIN activeDecisions /\ activeDecisions[u] # c)
             => (/\ u \in DOMAIN activeDecisions'
                 /\ activeDecisions'[u] = activeDecisions[u]
                 /\ pendingTransferId'[activeDecisions[u]] =
                        pendingTransferId[activeDecisions[u]]
                 /\ sockState'[activeDecisions[u]] = sockState[activeDecisions[u]])
    /\ \A i \in DOMAIN emitted' : emitted'[i].id = t
    /\ \A i \in DOMAIN notified' : notified'[i].id = t

\* C19: transfers with distinct ids on different connections are isolated:
\* a decision, a cancel, a disconnect (also those a timeout leads to) or a
\* status event of one transfer changes neither the PendingDecision nor the
\* outcome nor the progress of the other.
C19_TransfersIsolated ==
    [][/\ (evt'.kind = "cancel-transfer" /\ Own(evt'.conn, evt'.id))
          => OthersUntouched(evt'.conn, evt'.id)
       /\ (evt'.kind = "disconnect" /\ Own(evt'.conn, pendingTransferId[evt'.conn]))
          => OthersUntouched(evt'.conn, pendingTransferId[evt'.conn])
       /\ evt'.kind = "handleDecision"
          => OthersUntouched(IF evt'.id \in DOMAIN activeDecisions
                             THEN activeDecisions[evt'.id] ELSE None, evt'.id)
       /\ evt'.kind = "transfer-status"
          => (OthersUntouched(None, evt'.id) /\ UNCHANGED activeDecisions)]_vars

\* Connection c1 dropped with t1 pending while t2, accepted before and in
\* progress, had been requested again by c2 and was pending there.
C19_Witness ==
    /\ evt.kind = "disconnect" /\ evt.conn = "c1"
    /\ notified = <<[channel |-> "cancel-transfer", id |-> "t1"]>>
    /\ activeDecisions = [t \in {"t2"} |-> "c2"]
    /\ pendingTransferId["c2"] = "t2"
    /\ activities["t2"].progress = 50

\* =========================================================================
\* Claims C21 .. C30
\* =========================================================================
\* SameIgnoringCase: two hex strings that differ at most in letter case.
SameIgnoringCase(a, b) == ToUpperCase(a) = ToUpperCase(b)

\* C21: the fingerprint a host advertises is the upper-case SHA-256 of its
\* certificate's DER encoding, the function the initiator applies to the
\* certificate presented on connection; so for an upload whose expected
\* fingerprint is the one the server itself announced, checkServerIdentity
\* reports no mismatch and the upload does not fail with one.
C21_AdvertisedFingerprintIsTheCheckedOne ==
    (act.type # None /\ expectedFingerprint = certHash(serverCert))
        => /\ expectedFingerprint = serverFp(serverCert)
           /\ checkServerIdentity(serverCert, expectedFingerprint) = None
           /\ up.err # "Fingerprint mismatch!"

\* C22: the initiator's comparison ignores letter case: checkServerIdentity
\* passes exactly for the expected fingerprints that differ from the one
\* computed from the server's certificate at most in letter case.
C22_ComparisonIgnoresCase ==
    act.type # None
        => ((checkServerIdentity(serverCert, expectedFingerprint) = None)
              <=> SameIgnoringCase(expectedFingerprint, serverFp(serverCert)))

\* C23: a received query makes the service announce exactly once if one of
\* its questions names 'securexfer.local' and not at all otherwise, and
\* handling a query leaves the peer table as it is.
C23_QueryAnnouncesOnceIfNamed ==
    [][evt'.kind = "query"
       => /\ IF serviceName \in evt'.names
             THEN /\ Len(mdnsOut') = 1
                  /\ DOMAIN mdnsOut'[1] = {"response"}
                  /\ mdnsOut'[1].response = Announce
             ELSE mdnsOut' = <<>>
          /\ peers' = peers]_vars

C23_Witness ==
    /\ evt.kind = "query" /\ serviceName \in evt.names
    /\ Len(mdnsOut) = 1
    /\ DOMAIN peers # {}

\* C25: records leave the table by age only in getPeers(): discover(), a
\* query (with its announce()) and the passage of time leave the table as it
\* is, and a response removes no record but those that hold its address
\* under another id; a record older than the threshold stays as long as
\* getPeers() is not called.
C25_OnlyGetPeersEvictsByAge ==
    [][/\ evt'.kind \in {"discover", "query", "tick"} => peers' = peers
       /\ evt'.kind = "response"
            => \A i \in DOMAIN peers :
                  /\ i \notin DOMAIN peers' => (peers[i].ip = evt'.ip /\ i # evt'.id)
                  /\ (i \in DOMAIN peers' /\ i # evt'.id) => peers'[i] = peers[i]]_vars

C25_Witness ==
    /\ evt.kind = "discover"
    /\ \E i \in DOMAIN peers : now - peers[i].lastSeen > StaleMs

\* The record the handler is to hold for host h after a response received at t.
PeerOf(h, t) ==
    [id |-> h.id, name |-> h.name, ip |-> h.ip, port |-> h.port,
     fingerprint |-> h.fingerprint, lastSeen |-> t]

\* C26: when the response made by another host's announce() arrives, the
\* table holds under that host's id a record with the host's announced name,
\* fingerprint, port and address, and lastSeen the time of receipt.
C26_AnnounceRoundTrip ==
    [][\A h \in Hosts :
          (evt'.kind = "response" /\ evt'.sender = h /\ h.id # myId)
             => (h.id \in DOMAIN peers' /\ peers'[h.id] = PeerOf(h, now))]_vars

C26_Witness ==
    /\ evt.kind = "response" /\ evt.sender \in Hosts /\ evt.sender.id = "A"
    /\ "A" \in DOMAIN peers /\ peers["A"] = PeerOf(evt.sender, now)

\* C27: a valid foreign response for an id already in the table replaces the
\* record's name, ip, port and fingerprint and sets lastSeen to the time of
\* receipt; lastSeen changes in no other way, and getPeers() keeps every
\* record whose lastSeen is at most 30000 ms old, so a peer heard within
\* every such window is never removed by getPeers().
C27_RefreshedPeerIsKept ==
    [][/\ (/\ evt'.kind = "response" /\ evt'.sender \in Hosts
           /\ evt'.sender.id # myId /\ evt'.sender.id \in DOMAIN peers)
          => peers'[evt'.sender.id] = PeerOf(evt'.sender, now)
       /\ evt'.kind = "getPeers"
          => \A i \in DOMAIN peers :
                now - peers[i].lastSeen <= StaleMs
                   => (i \in DOMAIN peers' /\ peers'[i] = peers[i])
       /\ evt'.kind # "response"
          => \A i \in DOMAIN peers \cap DOMAIN peers' :
                peers'[i].lastSeen = peers[i].lastSeen]_vars

C27_Witness ==
    /\ evt.kind = "response" /\ evt.known /\ evt.sender \in Hosts
    /\ evt.id # myId
    /\ now > StaleMs
    /\ peers[evt.id] = PeerOf(evt.sender, now)

\* C28: getPeers() returns exactly the records with now - lastSeen <= 30000
\* (one exactly 30000 ms old is kept), each as it was, and leaves them in
\* the table unchanged, lastSeen included.
C28_GetPeersReturnsFreshRecords ==
    [][evt'.kind = "getPeers"
       => LET fresh == {i \in DOMAIN peers : now - peers[i].lastSeen <= StaleMs}
          IN /\ peerList'.called
             /\ peerList'.list = {peers[i] : i \in fresh}
             /\ DOMAIN peers' = fresh
             /\ \A i \in fresh : peers'[i] = peers[i]]_vars

C28_Witness ==
    /\ evt.kind = "getPeers"
    /\ \E i \in DOMAIN peers :
          now - peers[i].lastSeen = StaleMs /\ peers[i] \in peerList.list

\* C29: in every reachable state no two records of the peer table hold the
\* same address.
C29_NoTwoRecordsShareIp ==
    \A i, j \in DOMAIN peers : i # j => peers[i].ip # peers[j].ip

\* The answer the claim gives for getLocalIp on the visited addresses v: an
\* address of a priority interface if one is usable, else the first usable
\* address, else 127.0.0.1.
Usable(v) == {i \in DOMAIN v : v[i].iface.family = "IPv4" /\ ~v[i].iface.internal}

\* C24: getLocalIp returns the address of a non-loopback IPv4 interface with
\* a priority name if there is one, otherwise the first non-loopback IPv4
\* address in iteration order, otherwise 127.0.0.1.
C24_LocalIpPolicy ==
    localIp.called
       => LET v == Visited(interfaces)
              usable == Usable(v)
          IN IF \E i \in usable : v[i].isPriority
             THEN \E i \in usable : v[i].isPriority /\ localIp.ip = v[i].iface.address
             ELSE IF usable # {}
             THEN localIp.ip = v[FirstIndex(usable)].iface.address
             ELSE localIp.ip = "127.0.0.1"

\* C30: the listener writes file data for a transferId to the download
\* directory only after handleDecision(transferId, true) has occurred for
\* it (the renderer then holds a receiving activity for the id); an upload
\* request for any other id is not accepted.
C30_DataOnlyAfterAccept ==
    (rq.phase # "none" /\ disk.exists /\ disk.bytes > 0)
        => activities[rq.id].type = "receiving"

\* =========================================================================
\* Claims C31 .. C39
\* =========================================================================
\* The ids whose PendingDecision in the map d was registered by connection c.
RegisteredBy(d, c) == {t \in DOMAIN d : d[t] = c}

\* The ids of the 'cancel-transfer' notices of a step.
WithdrawnIn(n) == {n[i].id : i \in {j \in DOMAIN n : n[j].channel = "cancel-transfer"}}

\* C31: when a connection drops, every PendingDecision registered through it
\* and still outstanding is removed from activeDecisions and its withdrawal
\* is notified to the approval surface, also when the connection sent
\* several request-transfer messages or one of its transfers was resolved
\* before the drop.
C31_DropWithdrawsAllOfConnection ==
    [][evt'.kind = "disconnect"
       => \A t \in RegisteredBy(activeDecisions, evt'.conn) :
             /\ t \notin DOMAIN activeDecisions'
             /\ t \in WithdrawnIn(notified')]_vars

\* C32: a cancel-transfer or a disconnect on a connection removes only
\* PendingDecisions registered by that connection, also when two
\* connections use the same transferId.
C32_OnlyOwnerWithdraws ==
    [][evt'.kind \in {"cancel-transfer", "disconnect"}
       => \A t \in DOMAIN activeDecisions \ DOMAIN activeDecisions' :
             activeDecisions[t] = evt'.conn]_vars

\* C33: initiator and listener never disagree on the outcome: when the
\* initiator has ended in 'Timed out' (the timers have fired, the socket is
\* closed and everything sent has been handled), the listener did not resolve
\* the transfer as accepted: its approval surface no longer shows the
\* request and its renderer holds no receiving activity for it.
C33_SidesAgreeOnOutcome ==
    (TimedOutAndSettled /\ act.status = "Timed out" /\ sock = "closed")
        => (incomingTransfer = None /\ rxAct.type # "receiving")

\* C34: every request registered as a PendingDecision stays presented on the
\* approval surface until it is resolved or withdrawn, so that the user can
\* decide each of several pending requests: the surface, which passes the
\* user's answer on for the request it shows, shows every pending one.
C34_PendingRequestsStayDecidable ==
    \A t \in DOMAIN activeDecisions : incomingTransfer = t

\* C35: on the receiving side 'completed' is the last status event of a
\* transferId: once the receiving activity is marked isCompleted with
\* progress 100, no later event returns it to 'Downloading...' or to a
\* smaller progress, also for transfers of several files.
C35_CompletedIsLast ==
    [][(rxAct.type = "receiving" /\ rxAct.isCompleted /\ rxAct.progress = 100)
       => (/\ rxAct'.status # "Downloading..."
           /\ rxAct'.progress = 100
           /\ rxAct'.isCompleted)]_vars

\* C36: the progress of a sending activity is always an integer between 0
\* and 100 and never decreases during the transfer, for any number of files
\* and any file sizes, zero included.
C36_SendingProgressMonotone ==
    [][act'.type = "sending"
       => (/\ act'.progress \in 0..100
           /\ act.type = "sending" => act'.progress >= act.progress)]_vars

\* C37: every upload request accepted by the /upload route eventually
\* produces exactly one terminal status event ('completed' or 'error') and
\* an HTTP response, also when the sender's connection is aborted in the
\* middle of the byte stream.
C37_UploadEndsWithOneTerminalEvent ==
    (rq.phase = "open") ~> (Cardinality(rq.statuses) = 1 /\ httpRes # 0)

\* C38: a sending activity never stays in 'Waiting for permission...': it
\* eventually leaves it, and it leaves it only for 'Uploading' or 'Denied by
\* recipient' on a received decision or for 'Timed out' on the timeout,
\* which arms the closing of the connection; after the timeout the
\* connection is eventually closed.
C38_SendingLeavesOpen ==
    /\ (act.status = "Waiting for permission...")
          ~> (act.status \in {"Uploading: file", "Denied by recipient", "Timed out"})
    /\ [][(act.status = "Waiting for permission..."
             /\ act'.status # "Waiting for permission...")
          => \/ /\ evt'.kind = "transfer-decision"
                /\ act'.status \in {"Uploading: file", "Denied by recipient"}
             \/ /\ evt'.kind = "timeout"
                /\ act'.status = "Timed out"
                /\ closeTimer' = "armed"]_vars
    /\ (timeoutId = "fired") ~> (sock = "closed")

\* The request never reached a listener; the timeout fired and the socket
\* was closed.
C38_Witness ==
    /\ act.status = "Timed out"
    /\ timeoutId = "fired" /\ closeTimer = "fired"
    /\ sock = "closed"
    /\ lastRequest.id = None
    /\ sockState[theConn] = "new"


\* C39: the initiator starts the sequence of uploads at most once, and only
\* on a transfer-decision whose id is the transfer's own and whose allowed
\* flag is true: a handled decision starts the sequence exactly if it is
\* positive, carries the transfer's id and no sequence was started before,
\* and nothing else starts it.
C39_UploadsStartOnOwnDecisionOnly ==
    [][/\ (toI # <<>> /\ evt'.kind = "transfer-decision")
          => ((loop'.pc # loop.pc /\ loop'.pc = "await")
                <=> (/\ Head(toI).allowed
                     /\ Head(toI).id = transferId
                     /\ loop.pc = "idle"))
       /\ (loop.pc = "idle" /\ loop'.pc # "idle")
          => evt'.kind = "transfer-decision"]_vars

=============================================================================
